---- MODULE Spec2Model ----
(***************************************************************************)
(* A model of the namespace registry (package namespace, the read-through  *)
(* cache with single-flight, state-change callbacks and background         *)
(* refresh) and of task-queue partition ownership by range-id              *)
(* compare-and-set (package matching).                                     *)
(***************************************************************************)
EXTENDS Integers, Sequences, FiniteSets, TLC

(***************************************************************************)
(* Bounds of the model.                                                    *)
(***************************************************************************)
NumNamespaces == 2
NumLookupNamespaces == 1
MaxTime == 2
MaxStoreWrites == 2
MaxStoreUpdates == 1
MaxLookups == 3
MaxTimedLookups == 2
MaxNotifyLookups == 1
MaxRefreshes == 1
MaxRegistrations == 1
MaxRangeID == 3
MaxAckUpdates == 1
\* cfg.RangeSize, the number of task ids in a block, and
\* cfg.MaxTaskQueueIdleTime in ticks of the idle timer.
RangeSize == 2
MaxTaskQueueIdleTime == 2
\* The namespace handler: the notification version at which it stops
\* writing, and the last reading of its time source.
MaxNotificationVersion == 5
MaxClock == 1
\* The execution manager: the first event ids an event batch may start at.
MaxFirstEventID == 1
\* The drainage workflow: the workflow clock, the continue-as-new runs of one
\* chain, the configured grace periods.
MaxDrainTime == 3
MaxDrainRuns == 1
MaxGrace == 2
\* Poller scaling: the task-queue statistics and the size of a suggestion.
MaxBacklogCount == 2
MaxBacklogAge == 2
MaxRate == 1
MaxDelta == 2

(***************************************************************************)
(* Program constants.                                                      *)
(***************************************************************************)
\* readthroughCacheTTL = 1 * time.Second; the model's clock counts seconds.
readthroughCacheTTL == 1

IDs == 1 .. NumNamespaces
\* The name of namespace i is modelled by its index i: names are unique and
\* a namespace is not renamed.
Names == IDs
Readers == {"r1", "r2"}
Refresher == "rf"
Registrant == "rg"
Threads == Readers \cup {Refresher, Registrant}
Keys == {"k1", "k2"}
NoThread == "none"

\* A namespace record: the fields namespaceStateChanged reads, and ConfigVersion.
NoRec == [id |-> 0, cv |-> 0, st |-> "-", glob |-> FALSE, act |-> "-", repl |-> "-"]
NewRec(i) ==
    [id |-> i, cv |-> 1, st |-> "REGISTERED", glob |-> FALSE, act |-> "c1", repl |-> "NORMAL"]

\* A lookup handle: a namespace name or a namespace id (name.String(), id.String()).
Handles == [kind : {"name", "id"}, v : IDs]
NoHandle == [kind |-> "-", v |-> 0]
\* The namespaces the callers look up.
LookupIDs == 1 .. NumLookupNamespaces
LookupHandles == [kind : {"name", "id"}, v : LookupIDs]

EmptyMap == [x \in {} |-> 0]
MapPut(m, k, v) == [x \in (DOMAIN m) \cup {k} |-> IF x = k THEN v ELSE m[x]]
MapRemove(m, k) == [x \in (DOMAIN m) \ {k} |-> m[x]]

VARIABLES
    \* the metadata store and the clock
    db, storeWrites, storeUpdates, now,
    \* registry fields
    cacheByID, cacheNameToID, stateChangeCallbacks, cacheLock,
    readthroughErrorsCache, readthroughRequestLocks, mutexes,
    \* getOrPutNamespace / getOrPutNamespaceByID, one call per reader at a time
    pc, req, lk, resp, res, lookups, startNeg,
    \* refreshNamespaces
    namespacesDb, oldCache, newCacheByID, newCacheNameToID, refreshes,
    \* RegisterStateChangeCallback / UnregisterStateChangeCallback
    regKey, allNamespaces, registrations, cacheAtRegister,
    \* callback dispatch of the change event each thread is delivering
    evCallbacks, todo, running, calls,
    \* the task-queue row of one partition and its managers, one per process
    rangeID, tqmStatus, leaseRangeID, rid, idBlock, lastWrite,
    unloadCause, failedWrite, idleFor, ackUpdates, issued,
    \* the namespace handler: the persisted record, the metadata store's
    \* notification version, the replication queue, the clock, the last call
    nsRecord, notificationVersion, published, timeSource, nsCall, lastNsWrite,
    registerResp,
    \* the execution manager: its XDC event-blob cache and its last call
    cacheEnabled, eventBlobCache, lastExec,
    \* the drainage workflow of one version: its position, arguments and timers
    drainage,
    \* poller scaling: the last decision and the inputs it was made on
    pollScaling,
    \* the last SuppressBy call and the clocks it compared
    ndc,
    \* the last ProcessBuffer call of the scheduler
    procBuf,
    \* the registry's lifecycle: status, Start/Stop callers, the refresh loop
    life,
    \* the long polls waiting on the partition managers
    poll

storeVars == <<db, storeWrites, storeUpdates, now>>
cacheVars == <<cacheByID, cacheNameToID>>
lockVars == <<readthroughRequestLocks, mutexes>>
readerVars == <<req, lk, resp, res, lookups, startNeg>>
refreshVars == <<namespacesDb, oldCache, newCacheByID, newCacheNameToID, refreshes>>
regVars == <<regKey, allNamespaces, registrations, cacheAtRegister>>
dispatchVars == <<evCallbacks, todo, running, calls>>
matchVars == <<rangeID, tqmStatus, leaseRangeID, rid, idBlock, lastWrite,
               unloadCause, failedWrite, idleFor, ackUpdates, issued>>
nsVars == <<nsRecord, notificationVersion, published, timeSource, nsCall, lastNsWrite,
            registerResp>>
execVars == <<cacheEnabled, eventBlobCache, lastExec>>
\* The variables of the parts that follow the namespace handler.
drainVars == <<drainage>>
scalingVars == <<pollScaling>>
tailVars == <<ndc, procBuf, life, poll>>
extVars == <<execVars, drainVars, scalingVars, tailVars>>
registryVars == <<storeVars, cacheVars, stateChangeCallbacks, cacheLock,
                  readthroughErrorsCache, lockVars, pc, readerVars, refreshVars,
                  regVars, dispatchVars>>
otherVars == <<registryVars, matchVars, nsVars, execVars, drainVars, scalingVars>>
vars == <<db, storeWrites, storeUpdates, now, cacheByID, cacheNameToID, stateChangeCallbacks, cacheLock,
          readthroughErrorsCache, readthroughRequestLocks, mutexes,
          pc, req, lk, resp, res, lookups, startNeg,
          namespacesDb, oldCache, newCacheByID, newCacheNameToID, refreshes,
          regKey, allNamespaces, registrations, cacheAtRegister,
          evCallbacks, todo, running, calls,
          rangeID, tqmStatus, leaseRangeID, rid, idBlock, lastWrite,
          unloadCause, failedWrite, idleFor, ackUpdates, issued,
          nsRecord, notificationVersion, published, timeSource, nsCall, lastNsWrite,
          registerResp,
          cacheEnabled, eventBlobCache, lastExec, drainage, pollScaling,
          ndc, procBuf, life, poll>>

\* The matching processes that may load the partition.
Processes == {"m1", "m2"}
NoWrite == [by |-> "-", ok |-> TRUE, seq |-> 0, kind |-> "-", id |-> 0]

\* Cluster metadata as the namespace handler's tests configure it
\* (GetAllClusterInfo, GetCurrentClusterName).
ClusterNames == {"cluster1", "cluster2"}
NoCluster == ""
currentClusterName == "cluster1"
InitialFailoverVersion(c) == IF c = "cluster1" THEN 1 ELSE 2
failoverVersionIncrement == 10
\* The frontends that serve RegisterNamespace / UpdateNamespace.
Handlers == {"f1", "f2"}
\* The namespace row before the namespace is registered.
NoNamespace ==
    [exists |-> FALSE, isGlobal |-> FALSE, clusters |-> {}, active |-> NoCluster,
     state |-> "-", retention |-> 0, data |-> 0, configVersion |-> 0, failoverVersion |-> 0,
     failoverNotificationVersion |-> 0, failoverHistory |-> <<>>]
InitialNotificationVersion == 1
NoRequest == [promote |-> FALSE, active |-> NoCluster, config |-> FALSE]
NoCall == [phase |-> "idle", req |-> NoRequest, version |-> 0, rec |-> NoNamespace]
\* The response of the last RegisterNamespace call (none yet).
NoRegisterResp == [by |-> "-", isGlobal |-> FALSE, retention |-> 0, err |-> "-"]
\* The execution manager has served no call yet.
NoExecRequest ==
    [events |-> {}, new |-> FALSE, newEvents |-> {}, current |-> FALSE, currentEvents |-> {}]
\* A workflow as SuppressBy sees it, and the state before any SuppressBy call.
NoWorkflow == [version |-> 0, taskID |-> 0, running |-> FALSE, startedWT |-> FALSE,
               state |-> "-", status |-> "-"]
NoSuppress ==
    [called |-> FALSE, cur |-> NoWorkflow, inc |-> NoWorkflow, after |-> NoWorkflow,
     incAfterCur |-> FALSE, curAfterInc |-> FALSE, curAfterCur |-> FALSE,
     policy |-> "-", err |-> "-", calls |-> <<>>]
\* No ProcessBuffer call yet.
NoAction ==
    [OverlappingStarts |-> <<>>, NonOverlappingStart |-> 0, NewBuffer |-> <<>>,
     NeedCancel |-> FALSE, NeedTerminate |-> FALSE]
NoProcessBuffer ==
    [called |-> FALSE, buffer |-> <<>>, isRunning |-> FALSE, policy |-> "-",
     action |-> NoAction]
\* The registry after NewRegistry: stopped, no refresh loop, nobody calling.
Callers == {"s1", "s2"}
NoLife ==
    [status    |-> "stopped",
     call      |-> [c \in Callers |-> "idle"],
     loop      |-> "none",
     cancelled |-> FALSE,
     trigger   |-> 0,
     timer     |-> 0,
     alive     |-> 0,
     storeUp   |-> TRUE,
     crashed   |-> FALSE,
     last      |-> "-",
     starts    |-> 0,
     stops     |-> 0]
\* The long pollers; nobody polls.
Pollers == {"w1", "w2"}
NoPoll == [w \in Pollers |-> [on |-> "-", state |-> "none"]]
\* A poller-scaling decision: nil, or a PollRequestDeltaSuggestion.
NilDecision == [nil |-> TRUE, delta |-> 0]
NoPollInput ==
    [root |-> TRUE, admits |-> TRUE, count |-> 0, age |-> 0, add |-> 0,
     dispatch |-> 0, longWait |-> FALSE, delta |-> 1]
NoPollScaling == [made |-> FALSE, in |-> NoPollInput, decision |-> NilDecision]
\* The drainage workflow has not been started.
NoDrainage ==
    [pc |-> "idle", isCan |-> FALSE, startedCan |-> FALSE, done |-> FALSE,
     cancelled |-> FALSE, clock |-> 0, drainingAt |-> 0, grace |-> 0, wake |-> 0,
     sleptGrace |-> FALSE, info |-> "-", checks |-> 0, reported |-> "-",
     reportedAt |-> 0, runs |-> 0, result |-> "-"]
NoExec ==
    [op |-> "-", req |-> NoExecRequest, failure |-> "-", err |-> "-", trims |-> <<>>]
NoNsWrite ==
    [op |-> "-", by |-> "-", req |-> NoRequest, before |-> NoNamespace,
     version |-> 0, time |-> 0, published |-> FALSE]

NoResp == [err |-> "-", rec |-> NoRec]
NoRes == [kind |-> "-", from |-> "-", rec |-> NoRec, cause |-> "-"]

\* The state after construction; the execution manager is built with an
\* XDC event-blob cache or with none.
InitWith(xdcCache) ==
    /\ db = EmptyMap
    /\ storeWrites = 0
    /\ storeUpdates = 0
    /\ now = 0
    /\ cacheByID = EmptyMap
    /\ cacheNameToID = EmptyMap
    /\ stateChangeCallbacks = {}
    /\ cacheLock = NoThread
    /\ readthroughErrorsCache = EmptyMap
    /\ readthroughRequestLocks = EmptyMap
    /\ mutexes = EmptyMap
    /\ pc = [t \in Threads |-> "idle"]
    /\ req = [r \in Readers |-> NoHandle]
    /\ lk = [r \in Readers |-> 0]
    /\ resp = [r \in Readers |-> NoResp]
    /\ res = [r \in Readers |-> NoRes]
    /\ lookups = 0
    /\ startNeg = [r \in Readers |-> FALSE]
    /\ namespacesDb = EmptyMap
    /\ oldCache = EmptyMap
    /\ newCacheByID = EmptyMap
    /\ newCacheNameToID = EmptyMap
    /\ refreshes = 0
    /\ regKey = "-"
    /\ allNamespaces = EmptyMap
    /\ registrations = 0
    /\ cacheAtRegister = EmptyMap
    /\ evCallbacks = [t \in Threads |-> {}]
    /\ todo = [t \in Threads |-> {}]
    /\ running = {}
    /\ calls = [t \in Threads |-> EmptyMap]
    /\ rangeID = 0
    /\ tqmStatus = [p \in Processes |-> "unloaded"]
    /\ leaseRangeID = [p \in Processes |-> 0]
    /\ rid = [p \in Processes |-> 0]
    /\ idBlock = [p \in Processes |-> 0]
    /\ lastWrite = NoWrite
    /\ unloadCause = [p \in Processes |-> "-"]
    /\ failedWrite = [p \in Processes |-> "-"]
    /\ idleFor = [p \in Processes |-> 0]
    /\ ackUpdates = [p \in Processes |-> 0]
    /\ issued = {}
    /\ nsRecord = NoNamespace
    /\ notificationVersion = InitialNotificationVersion
    /\ published = 0
    /\ timeSource = 0
    /\ nsCall = [h \in Handlers |-> NoCall]
    /\ lastNsWrite = NoNsWrite
    /\ registerResp = NoRegisterResp
    /\ cacheEnabled = xdcCache
    /\ eventBlobCache = {}
    /\ lastExec = NoExec
    /\ drainage = NoDrainage
    /\ pollScaling = NoPollScaling
    /\ ndc = NoSuppress
    /\ procBuf = NoProcessBuffer
    /\ life = NoLife
    /\ poll = NoPoll

Init == InitWith(TRUE)

(***************************************************************************)
(* The metadata store (interface Persistence) and the clock.               *)
(***************************************************************************)
Toggle(rec, field) ==
    CASE field = "state" ->
            [rec EXCEPT !.st = IF rec.st = "REGISTERED" THEN "DEPRECATED" ELSE "REGISTERED"]
      [] field = "global" -> [rec EXCEPT !.glob = ~rec.glob]
      [] field = "active" -> [rec EXCEPT !.act = IF rec.act = "c1" THEN "c2" ELSE "c1"]
      [] field = "replication" ->
            [rec EXCEPT !.repl = IF rec.repl = "NORMAL" THEN "HANDOVER" ELSE "NORMAL"]
      [] OTHER -> [rec EXCEPT !.cv = rec.cv + 1]

StoreFields == {"state", "global", "active", "replication", "config"}

StoreCreate(i) ==
    /\ storeWrites < MaxStoreWrites
    /\ i \notin DOMAIN db
    /\ db' = MapPut(db, i, NewRec(i))
    /\ storeWrites' = storeWrites + 1
    /\ UNCHANGED <<matchVars, nsVars, extVars>>
    /\ UNCHANGED <<storeUpdates, now, cacheVars, stateChangeCallbacks, cacheLock, readthroughErrorsCache,
                   lockVars, pc, readerVars, refreshVars, regVars, dispatchVars>>

StoreUpdate(i, field) ==
    /\ storeUpdates < MaxStoreUpdates
    /\ i \in DOMAIN db
    /\ db' = MapPut(db, i, Toggle(db[i], field))
    /\ storeUpdates' = storeUpdates + 1
    /\ UNCHANGED <<matchVars, nsVars, extVars>>
    /\ UNCHANGED <<storeWrites, now, cacheVars, stateChangeCallbacks, cacheLock, readthroughErrorsCache,
                   lockVars, pc, readerVars, refreshVars, regVars, dispatchVars>>

StoreDelete(i) ==
    /\ storeWrites < MaxStoreWrites
    /\ i \in DOMAIN db
    /\ db' = MapRemove(db, i)
    /\ storeWrites' = storeWrites + 1
    /\ UNCHANGED <<matchVars, nsVars, extVars>>
    /\ UNCHANGED <<storeUpdates, now, cacheVars, stateChangeCallbacks, cacheLock, readthroughErrorsCache,
                   lockVars, pc, readerVars, refreshVars, regVars, dispatchVars>>

Tick ==
    /\ now < MaxTime
    /\ now' = now + 1
    /\ UNCHANGED <<matchVars, nsVars, extVars>>
    /\ UNCHANGED <<db, storeWrites, storeUpdates, cacheVars, stateChangeCallbacks, cacheLock,
                   readthroughErrorsCache, lockVars, pc, readerVars, refreshVars, regVars,
                   dispatchVars>>

(***************************************************************************)
(* Cache reads.                                                            *)
(***************************************************************************)
\* The readers take cacheLock.RLock(): they cannot enter while a writer holds it.
\* A read that does not take cacheLock.RLock().
CanRLock_NoLock == TRUE
CanRLock == cacheLock = NoThread
\* Writers take cacheLock.Lock().
\* A write that does not take cacheLock.Lock().
CanLock_NoLock == TRUE
CanLock == cacheLock = NoThread

getNamespaceByIDLocked(i) == IF i \in DOMAIN cacheByID THEN cacheByID[i] ELSE NoRec

getNamespace(name) ==
    IF name \in DOMAIN cacheNameToID
    THEN getNamespaceByIDLocked(cacheNameToID[name])
    ELSE NoRec

\* An entry of a cache with a TTL is no longer returned once the TTL has passed.
Expired(entry) == now > entry.created + readthroughCacheTTL

getPreviousReadthroughError(h) ==
    h \in DOMAIN readthroughErrorsCache /\ ~Expired(readthroughErrorsCache[h])

\* checkCachesByName / checkCachesByID: the main caches first, then the
\* read-through error cache; "miss" is the (nil, nil) result.
\* A check that does not consult the readthrough error cache.
checkCaches_SkipsErrorCache(h) ==
    LET hit == IF h.kind = "name" THEN getNamespace(h.v) ELSE getNamespaceByIDLocked(h.v)
    IN  IF hit # NoRec
        THEN [kind |-> "ns", from |-> "cache", rec |-> hit, cause |-> "-"]
        ELSE [kind |-> "miss", from |-> "-", rec |-> NoRec, cause |-> "-"]

checkCaches(h) ==
    LET hit == IF h.kind = "name" THEN getNamespace(h.v) ELSE getNamespaceByIDLocked(h.v)
    IN  IF hit # NoRec
        THEN [kind |-> "ns", from |-> "cache", rec |-> hit, cause |-> "-"]
        ELSE IF getPreviousReadthroughError(h)
             THEN [kind |-> "NotFound", from |-> "negcache", rec |-> NoRec, cause |-> "-"]
             ELSE [kind |-> "miss", from |-> "-", rec |-> NoRec, cause |-> "-"]

\* old == nil, or one of the four fields differs.
\* A comparison that also counts a config version change as a state change.
namespaceStateChanged_ComparesVersion(old, new) ==
    \/ old = NoRec
    \/ old.st # new.st
    \/ old.glob # new.glob
    \/ old.act # new.act
    \/ old.repl # new.repl
    \/ old.cv # new.cv

namespaceStateChanged(old, new) ==
    \/ old = NoRec
    \/ old.st # new.st
    \/ old.glob # new.glob
    \/ old.act # new.act
    \/ old.repl # new.repl

(***************************************************************************)
(* The per-handle request locks.                                           *)
(***************************************************************************)
LockIds == 1 .. (2 * Cardinality(Readers) + 1)
Min(S) == CHOOSE x \in S : \A y \in S : x <= y
\* &sync.Mutex{}: a mutex no other thread refers to.
FreshLock == Min(LockIds \ DOMAIN mutexes)
\* Mutexes nothing refers to any more are garbage.
Collect(ms, locks, lks) ==
    [l \in {x \in DOMAIN ms : (\E h \in DOMAIN locks : locks[h] = x)
                              \/ (\E r \in Readers : lks[r] = x)} |-> ms[l]]

(***************************************************************************)
(* GetNamespace(name) / GetNamespaceByID(id): getOrPutNamespace and        *)
(* getOrPutNamespaceByID, step by step.                                    *)
(***************************************************************************)
GetNamespace(r, h) ==
    /\ pc[r] = "idle"
    /\ lookups < MaxLookups
    /\ pc' = [pc EXCEPT ![r] = "check1"]
    /\ req' = [req EXCEPT ![r] = h]
    /\ lookups' = lookups + 1
    /\ startNeg' = [startNeg EXCEPT ![r] = getPreviousReadthroughError(h)]
    /\ UNCHANGED <<matchVars, nsVars, extVars>>
    /\ UNCHANGED <<storeVars, cacheVars, stateChangeCallbacks, cacheLock,
                   readthroughErrorsCache, lockVars, lk, resp, res, refreshVars, regVars,
                   dispatchVars>>

\* the first checkCachesByName / checkCachesByID
Check1(r) ==
    /\ pc[r] = "check1"
    /\ CanRLock
    /\ LET c == checkCaches(req[r])
       IN  IF c.kind = "miss"
           THEN /\ pc' = [pc EXCEPT ![r] = "putLock"]
                /\ res' = res
           ELSE /\ pc' = [pc EXCEPT ![r] = "done"]
                /\ res' = [res EXCEPT ![r] = c]
    /\ UNCHANGED <<matchVars, nsVars, extVars>>
    /\ UNCHANGED <<storeVars, cacheVars, stateChangeCallbacks, cacheLock,
                   readthroughErrorsCache, lockVars, req, lk, resp, lookups, startNeg,
                   refreshVars,
                   regVars, dispatchVars>>

\* getOrPutRequestLock: readthroughRequestLocks.PutIfNotExist(handle, &sync.Mutex{})
PutIfNotExist(r) ==
    /\ pc[r] = "putLock"
    /\ IF req[r] \in DOMAIN readthroughRequestLocks
       THEN UNCHANGED lockVars
       ELSE /\ readthroughRequestLocks' = MapPut(readthroughRequestLocks, req[r], FreshLock)
            /\ mutexes' = MapPut(mutexes, FreshLock, NoThread)
    /\ pc' = [pc EXCEPT ![r] = "getLock"]
    /\ UNCHANGED <<matchVars, nsVars, extVars>>
    /\ UNCHANGED <<storeVars, cacheVars, stateChangeCallbacks, cacheLock,
                   readthroughErrorsCache, readerVars, refreshVars, regVars, dispatchVars>>

\* getOrPutRequestLock: readthroughRequestLocks.Get(handle); nil (0) when the
\* entry has been removed since PutIfNotExist
GetLock(r) ==
    /\ pc[r] = "getLock"
    /\ lk' = [lk EXCEPT ![r] = IF req[r] \in DOMAIN readthroughRequestLocks
                               THEN readthroughRequestLocks[req[r]] ELSE 0]
    /\ pc' = [pc EXCEPT ![r] = "lock"]
    /\ UNCHANGED <<matchVars, nsVars, extVars>>
    /\ UNCHANGED <<storeVars, cacheVars, stateChangeCallbacks, cacheLock,
                   readthroughErrorsCache, lockVars, req, resp, res, lookups, startNeg,
                   refreshVars,
                   regVars, dispatchVars>>

\* lock.Lock(); on a nil lock the call panics (nil pointer dereference)
LockRequest(r) ==
    /\ pc[r] = "lock"
    /\ IF lk[r] = 0
       THEN /\ pc' = [pc EXCEPT ![r] = "done"]
            /\ res' = [res EXCEPT ![r] =
                          [kind |-> "panic", from |-> "-", rec |-> NoRec, cause |-> "-"]]
            /\ UNCHANGED mutexes
       ELSE /\ mutexes[lk[r]] = NoThread
            /\ mutexes' = [mutexes EXCEPT ![lk[r]] = r]
            /\ pc' = [pc EXCEPT ![r] = "check2"]
            /\ res' = res
    /\ UNCHANGED <<matchVars, nsVars, extVars>>
    /\ UNCHANGED <<storeVars, cacheVars, stateChangeCallbacks, cacheLock,
                   readthroughErrorsCache, readthroughRequestLocks, req, lk, resp,
                   lookups, startNeg,
                   refreshVars, regVars, dispatchVars>>

\* check caches again in case there was an update while waiting
Check2(r) ==
    /\ pc[r] = "check2"
    /\ CanRLock
    /\ LET c == checkCaches(req[r])
       IN  IF c.kind = "miss"
           THEN /\ pc' = [pc EXCEPT ![r] = "persist"]
                /\ res' = res
           ELSE /\ pc' = [pc EXCEPT ![r] = "unlock"]
                /\ res' = [res EXCEPT ![r] = c]
    /\ UNCHANGED <<matchVars, nsVars, extVars>>
    /\ UNCHANGED <<storeVars, cacheVars, stateChangeCallbacks, cacheLock,
                   readthroughErrorsCache, lockVars, req, lk, resp, lookups, startNeg,
                   refreshVars,
                   regVars, dispatchVars>>

\* persistence.GetNamespace answers: the row, NamespaceNotFound, or another error
StoreAnswers(h) ==
    (IF h.v \in DOMAIN db
     THEN {[err |-> "", rec |-> db[h.v]]}
     ELSE {[err |-> "NotFound", rec |-> NoRec]})
    \cup {[err |-> "Transient", rec |-> NoRec]}

\* getNamespacePersistence: the store reads the row while the call is in flight
StoreGetNamespace(r) ==
    /\ pc[r] = "persist"
    /\ \E a \in StoreAnswers(req[r]) : resp' = [resp EXCEPT ![r] = a]
    /\ pc' = [pc EXCEPT ![r] = "persisted"]
    /\ UNCHANGED <<matchVars, nsVars, extVars>>
    /\ UNCHANGED <<storeVars, cacheVars, stateChangeCallbacks, cacheLock,
                   readthroughErrorsCache, lockVars, req, lk, res, lookups, startNeg,
                   refreshVars,
                   regVars, dispatchVars>>

\* if _, ok := err.(*serviceerror.NamespaceNotFound); ok { updateReadthroughCache }
\* A read-through that caches whatever error the store returned.
CachesError_AnyError(err) == TRUE
CachesError(err) == err = "NotFound"

\* getNamespaceByNamePersistence / getNamespaceByIDPersistence after the store
\* has answered; the caller gets notFoundErr whatever the error was
PersistenceReturn(r) ==
    /\ pc[r] = "persisted"
    /\ IF resp[r].err # ""
       THEN /\ readthroughErrorsCache' =
                  IF CachesError(resp[r].err)
                  THEN MapPut(readthroughErrorsCache, req[r],
                              [created |-> now, cause |-> resp[r].err])
                  ELSE readthroughErrorsCache
            /\ res' = [res EXCEPT ![r] = [kind |-> "NotFound", from |-> "store",
                                          rec |-> NoRec, cause |-> resp[r].err]]
            /\ resp' = [resp EXCEPT ![r] = NoResp]
            /\ pc' = [pc EXCEPT ![r] = "unlock"]
       ELSE /\ pc' = [pc EXCEPT ![r] = "update"]
            /\ UNCHANGED <<readthroughErrorsCache, res, resp>>
    /\ UNCHANGED <<matchVars, nsVars, extVars>>
    /\ UNCHANGED <<storeVars, cacheVars, stateChangeCallbacks, cacheLock, lockVars, req,
                   lk, lookups, startNeg, refreshVars, regVars, dispatchVars>>

Invocations(keys, recs, deleted) ==
    {[key |-> k, id |-> n.id, rec |-> n, del |-> deleted] : k \in keys, n \in recs}

\* updateCachesSingleNamespace up to its cacheLock.Unlock()
updateCachesSingleNamespace(r) ==
    /\ pc[r] = "update"
    /\ CanLock
    /\ cacheLock' = r
    /\ LET ns == resp[r].rec
           oldNS == getNamespaceByIDLocked(ns.id)
       IN  /\ IF oldNS # NoRec /\ oldNS.cv >= ns.cv
              THEN UNCHANGED <<cacheVars, evCallbacks, todo>>
              ELSE /\ cacheByID' = MapPut(cacheByID, ns.id, ns)
                   /\ cacheNameToID' = MapPut(cacheNameToID, ns.id, ns.id)
                   /\ IF namespaceStateChanged(oldNS, ns)
                      THEN /\ evCallbacks' = [evCallbacks EXCEPT ![r] = stateChangeCallbacks]
                           /\ todo' = [todo EXCEPT ![r] =
                                          Invocations(stateChangeCallbacks, {ns}, FALSE)]
                      ELSE UNCHANGED <<evCallbacks, todo>>
           /\ res' = [res EXCEPT ![r] = [kind |-> "ns", from |-> "store", rec |-> ns,
                                         cause |-> "-"]]
    /\ resp' = [resp EXCEPT ![r] = NoResp]
    /\ pc' = [pc EXCEPT ![r] = "updateUnlock"]
    /\ UNCHANGED <<matchVars, nsVars, extVars>>
    /\ UNCHANGED <<storeVars, stateChangeCallbacks, readthroughErrorsCache, lockVars, req,
                   lk, lookups, startNeg, refreshVars, regVars, running, calls>>

\* r.cacheLock.Unlock() of updateCachesSingleNamespace
UpdateUnlock(r) ==
    /\ pc[r] = "updateUnlock"
    /\ cacheLock' = NoThread
    /\ pc' = [pc EXCEPT ![r] = IF todo[r] # {} THEN "dispatch" ELSE "unlock"]
    /\ UNCHANGED <<matchVars, nsVars, extVars>>
    /\ UNCHANGED <<storeVars, cacheVars, stateChangeCallbacks, readthroughErrorsCache,
                   lockVars, readerVars, refreshVars, regVars, dispatchVars>>

\* cleanupRequestLock: lock.Unlock()
CleanupUnlock(r) ==
    /\ pc[r] = "unlock"
    /\ mutexes' = [mutexes EXCEPT ![lk[r]] = NoThread]
    /\ pc' = [pc EXCEPT ![r] = "tryLock"]
    /\ UNCHANGED <<matchVars, nsVars, extVars>>
    /\ UNCHANGED <<storeVars, cacheVars, stateChangeCallbacks, cacheLock,
                   readthroughErrorsCache, readthroughRequestLocks, readerVars,
                   refreshVars, regVars, dispatchVars>>

\* cleanupRequestLock: if lock.TryLock()
CleanupTryLock(r) ==
    /\ pc[r] = "tryLock"
    /\ IF mutexes[lk[r]] = NoThread
       THEN /\ mutexes' = [mutexes EXCEPT ![lk[r]] = r]
            /\ pc' = [pc EXCEPT ![r] = "remove"]
            /\ lk' = lk
       ELSE /\ lk' = [lk EXCEPT ![r] = 0]
            /\ mutexes' = Collect(mutexes, readthroughRequestLocks, lk')
            /\ pc' = [pc EXCEPT ![r] = "done"]
    /\ UNCHANGED <<matchVars, nsVars, extVars>>
    /\ UNCHANGED <<storeVars, cacheVars, stateChangeCallbacks, cacheLock,
                   readthroughErrorsCache, readthroughRequestLocks, req, resp, res,
                   lookups, startNeg,
                   refreshVars, regVars, dispatchVars>>

\* cleanupRequestLock: readthroughRequestLocks.Remove(handle); lock.Unlock()
CleanupRemove(r) ==
    /\ pc[r] = "remove"
    /\ readthroughRequestLocks' = MapRemove(readthroughRequestLocks, req[r])
    /\ lk' = [lk EXCEPT ![r] = 0]
    /\ mutexes' = Collect([mutexes EXCEPT ![lk[r]] = NoThread], readthroughRequestLocks', lk')
    /\ pc' = [pc EXCEPT ![r] = "done"]
    /\ UNCHANGED <<matchVars, nsVars, extVars>>
    /\ UNCHANGED <<storeVars, cacheVars, stateChangeCallbacks, cacheLock,
                   readthroughErrorsCache, req, resp, res, lookups, startNeg,
                   refreshVars, regVars,
                   dispatchVars>>

\* the call returns to its caller
Return(r) ==
    /\ pc[r] = "done"
    /\ pc' = [pc EXCEPT ![r] = "idle"]
    /\ req' = [req EXCEPT ![r] = NoHandle]
    /\ res' = [res EXCEPT ![r] = NoRes]
    /\ startNeg' = [startNeg EXCEPT ![r] = FALSE]
    /\ evCallbacks' = [evCallbacks EXCEPT ![r] = {}]
    /\ calls' = [calls EXCEPT ![r] = EmptyMap]
    /\ UNCHANGED <<matchVars, nsVars, extVars>>
    /\ UNCHANGED <<storeVars, cacheVars, stateChangeCallbacks, cacheLock,
                   readthroughErrorsCache, lockVars, lk, resp, lookups, refreshVars,
                   regVars, todo, running>>

(***************************************************************************)
(* Callback dispatch: for _, cb := range stateChangeCallbacks { cb(ns, ..) }*)
(***************************************************************************)
\* The loop calls cb synchronously: the next call starts when the last returned.
\* A dispatch that starts each callback without waiting for the previous one.
SerialReady_Concurrent(t) == TRUE
SerialReady(t) == \A x \in running : x.thr # t

AfterDispatch(t) == IF t \in Readers THEN "unlock" ELSE "done"

Count(t, inv) == IF inv \in DOMAIN calls[t] THEN calls[t][inv] ELSE 0

CallbackInvoke(t) ==
    /\ pc[t] = "dispatch"
    /\ SerialReady(t)
    /\ \E inv \in todo[t] :
          /\ todo' = [todo EXCEPT ![t] = @ \ {inv}]
          /\ running' = running \cup {[thr |-> t, inv |-> inv]}
          /\ calls' = [calls EXCEPT ![t] = MapPut(@, inv, Count(t, inv) + 1)]
    /\ UNCHANGED <<matchVars, nsVars, extVars>>
    /\ UNCHANGED <<storeVars, cacheVars, stateChangeCallbacks, cacheLock,
                   readthroughErrorsCache, lockVars, pc, readerVars, refreshVars, regVars,
                   evCallbacks>>

CallbackReturn(t) ==
    /\ pc[t] = "dispatch"
    /\ \E x \in running :
          /\ x.thr = t
          /\ running' = running \ {x}
          /\ pc' = [pc EXCEPT ![t] =
                       IF todo[t] = {} /\ (\A y \in running' : y.thr # t)
                       THEN AfterDispatch(t) ELSE "dispatch"]
    /\ UNCHANGED <<matchVars, nsVars, extVars>>
    /\ UNCHANGED <<storeVars, cacheVars, stateChangeCallbacks, cacheLock,
                   readthroughErrorsCache, lockVars, readerVars, refreshVars, regVars,
                   evCallbacks, todo, calls>>

(***************************************************************************)
(* refreshNamespaces, run by the refresh loop.                             *)
(***************************************************************************)
\* persistence.ListNamespaces(IncludeDeleted: true), all pages
ListNamespaces ==
    /\ pc[Refresher] = "idle"
    /\ refreshes < MaxRefreshes
    /\ refreshes' = refreshes + 1
    /\ namespacesDb' = db
    /\ pc' = [pc EXCEPT ![Refresher] = "copy"]
    /\ UNCHANGED <<matchVars, nsVars, extVars>>
    /\ UNCHANGED <<storeVars, cacheVars, stateChangeCallbacks, cacheLock,
                   readthroughErrorsCache, lockVars, readerVars, oldCache, newCacheByID,
                   newCacheNameToID, regVars, dispatchVars>>

\* the cached namespaces the store no longer lists
\* A refresh that does not collect the namespaces missing from the listing.
DeletedEntries_None(old, listed) == {}
DeletedEntries(old, listed) == {old[i] : i \in (DOMAIN old) \ (DOMAIN listed)}

\* the copy of the cache without the deleted entries, then every listed
\* namespace put over it
RefreshedByID(old, listed) ==
    [i \in ((DOMAIN old) \cap (DOMAIN listed)) \cup (DOMAIN listed) |-> listed[i]]

\* A refresh that keeps the names of the namespaces it removes.
RefreshedNameToID_KeepsDeleted(old, listed) ==
    [n \in {old[i].id : i \in DOMAIN old} \cup {listed[i].id : i \in DOMAIN listed} |-> n]
RefreshedNameToID(old, listed) ==
    [n \in {old[i].id : i \in (DOMAIN old) \cap (DOMAIN listed)}
           \cup {listed[i].id : i \in DOMAIN listed} |-> n]

\* the listed namespaces for which namespaceStateChanged(oldNS, namespace)
StateChanged(old, listed) ==
    {listed[i] : i \in {j \in DOMAIN listed :
        namespaceStateChanged(IF j \in DOMAIN old THEN old[j] ELSE NoRec, listed[j])}}

\* getAllNamespace() and the two new caches built from it
CopyCache ==
    /\ pc[Refresher] = "copy"
    /\ CanRLock
    /\ oldCache' = cacheByID
    /\ newCacheByID' = RefreshedByID(cacheByID, namespacesDb)
    /\ newCacheNameToID' = RefreshedNameToID(cacheByID, namespacesDb)
    /\ pc' = [pc EXCEPT ![Refresher] = "swap"]
    /\ UNCHANGED <<matchVars, nsVars, extVars>>
    /\ UNCHANGED <<storeVars, cacheVars, stateChangeCallbacks, cacheLock,
                   readthroughErrorsCache, lockVars, readerVars, namespacesDb, refreshes,
                   regVars, dispatchVars>>

\* cacheLock.Lock(); swap the caches; copy the callbacks
SwapCaches ==
    /\ pc[Refresher] = "swap"
    /\ CanLock
    /\ cacheLock' = Refresher
    /\ cacheByID' = newCacheByID
    /\ cacheNameToID' = newCacheNameToID
    /\ evCallbacks' = [evCallbacks EXCEPT ![Refresher] = stateChangeCallbacks]
    /\ todo' = [todo EXCEPT ![Refresher] =
                   Invocations(stateChangeCallbacks,
                               DeletedEntries(oldCache, namespacesDb), TRUE)
                   \cup Invocations(stateChangeCallbacks,
                                    StateChanged(oldCache, namespacesDb), FALSE)]
    /\ pc' = [pc EXCEPT ![Refresher] = "swapUnlock"]
    /\ UNCHANGED <<matchVars, nsVars, extVars>>
    /\ UNCHANGED <<storeVars, stateChangeCallbacks, readthroughErrorsCache, lockVars,
                   readerVars, refreshVars, regVars, running, calls>>

SwapUnlock ==
    /\ pc[Refresher] = "swapUnlock"
    /\ cacheLock' = NoThread
    /\ pc' = [pc EXCEPT ![Refresher] = IF todo[Refresher] # {} THEN "dispatch" ELSE "done"]
    /\ UNCHANGED <<matchVars, nsVars, extVars>>
    /\ UNCHANGED <<storeVars, cacheVars, stateChangeCallbacks, readthroughErrorsCache,
                   lockVars, readerVars, refreshVars, regVars, dispatchVars>>

RefreshReturn ==
    /\ pc[Refresher] = "done"
    /\ pc' = [pc EXCEPT ![Refresher] = "idle"]
    /\ namespacesDb' = EmptyMap
    /\ oldCache' = EmptyMap
    /\ newCacheByID' = EmptyMap
    /\ newCacheNameToID' = EmptyMap
    /\ evCallbacks' = [evCallbacks EXCEPT ![Refresher] = {}]
    /\ calls' = [calls EXCEPT ![Refresher] = EmptyMap]
    /\ UNCHANGED <<matchVars, nsVars, extVars>>
    /\ UNCHANGED <<storeVars, cacheVars, stateChangeCallbacks, cacheLock,
                   readthroughErrorsCache, lockVars, readerVars, refreshes, regVars, todo,
                   running>>

(***************************************************************************)
(* RegisterStateChangeCallback / UnregisterStateChangeCallback.            *)
(***************************************************************************)
\* A snapshot that misses the namespace with the smallest id.
getAllNamespaceLocked_DropsOne ==
    IF cacheByID = EmptyMap THEN cacheByID ELSE MapRemove(cacheByID, Min(DOMAIN cacheByID))
getAllNamespaceLocked == cacheByID

Range(m) == {m[x] : x \in DOMAIN m}

\* cacheLock.Lock(); stateChangeCallbacks[key] = cb; allNamespaces := ...
RegisterStateChangeCallback(k) ==
    /\ pc[Registrant] = "idle"
    /\ registrations < MaxRegistrations
    /\ CanLock
    /\ cacheLock' = Registrant
    /\ registrations' = registrations + 1
    /\ regKey' = k
    /\ stateChangeCallbacks' = stateChangeCallbacks \cup {k}
    /\ allNamespaces' = getAllNamespaceLocked
    /\ cacheAtRegister' = cacheByID
    /\ todo' = [todo EXCEPT ![Registrant] = Invocations({k}, Range(allNamespaces'), FALSE)]
    /\ pc' = [pc EXCEPT ![Registrant] = "registerUnlock"]
    /\ UNCHANGED <<matchVars, nsVars, extVars>>
    /\ UNCHANGED <<storeVars, cacheVars, readthroughErrorsCache, lockVars, readerVars,
                   refreshVars, evCallbacks, running, calls>>

RegisterUnlock ==
    /\ pc[Registrant] = "registerUnlock"
    /\ cacheLock' = NoThread
    /\ pc' = [pc EXCEPT ![Registrant] = IF todo[Registrant] # {} THEN "dispatch" ELSE "done"]
    /\ UNCHANGED <<matchVars, nsVars, extVars>>
    /\ UNCHANGED <<storeVars, cacheVars, stateChangeCallbacks, readthroughErrorsCache,
                   lockVars, readerVars, refreshVars, regVars, dispatchVars>>

RegisterReturn ==
    /\ pc[Registrant] = "done"
    /\ pc' = [pc EXCEPT ![Registrant] = "idle"]
    /\ regKey' = "-"
    /\ allNamespaces' = EmptyMap
    /\ cacheAtRegister' = EmptyMap
    /\ calls' = [calls EXCEPT ![Registrant] = EmptyMap]
    /\ UNCHANGED <<matchVars, nsVars, extVars>>
    /\ UNCHANGED <<storeVars, cacheVars, stateChangeCallbacks, cacheLock,
                   readthroughErrorsCache, lockVars, readerVars, refreshVars,
                   registrations, evCallbacks, todo, running>>

\* cacheLock.Lock(); delete(stateChangeCallbacks, key)
UnregisterStateChangeCallback(k) ==
    /\ pc[Registrant] = "idle"
    /\ k \in stateChangeCallbacks
    /\ CanLock
    /\ cacheLock' = Registrant
    /\ stateChangeCallbacks' = stateChangeCallbacks \ {k}
    /\ pc' = [pc EXCEPT ![Registrant] = "unregisterUnlock"]
    /\ UNCHANGED <<matchVars, nsVars, extVars>>
    /\ UNCHANGED <<storeVars, cacheVars, readthroughErrorsCache, lockVars, readerVars,
                   refreshVars, regVars, dispatchVars>>

\* the deferred cacheLock.Unlock()
UnregisterUnlock ==
    /\ pc[Registrant] = "unregisterUnlock"
    /\ cacheLock' = NoThread
    /\ pc' = [pc EXCEPT ![Registrant] = "idle"]
    /\ UNCHANGED <<matchVars, nsVars, extVars>>
    /\ UNCHANGED <<storeVars, cacheVars, stateChangeCallbacks, readthroughErrorsCache,
                   lockVars, readerVars, refreshVars, regVars, dispatchVars>>

ReaderStep(r) ==
    \/ Check1(r)
    \/ PutIfNotExist(r)
    \/ GetLock(r)
    \/ LockRequest(r)
    \/ Check2(r)
    \/ StoreGetNamespace(r)
    \/ PersistenceReturn(r)
    \/ updateCachesSingleNamespace(r)
    \/ UpdateUnlock(r)
    \/ CleanupUnlock(r)
    \/ CleanupTryLock(r)
    \/ CleanupRemove(r)
    \/ Return(r)

RefreshStep ==
    \/ ListNamespaces
    \/ CopyCache
    \/ SwapCaches
    \/ SwapUnlock
    \/ RefreshReturn

RegistrantStep ==
    \/ \E k \in Keys : RegisterStateChangeCallback(k)
    \/ RegisterUnlock
    \/ RegisterReturn
    \/ \E k \in Keys : UnregisterStateChangeCallback(k)
    \/ UnregisterUnlock

(***************************************************************************)
(* Lookups: two callers of GetNamespace / GetNamespaceByID, the store, the *)
(* clock and the refresher.                                                *)
(***************************************************************************)
NextLookup ==
    \/ \E r \in Readers, h \in LookupHandles :
           lookups < MaxTimedLookups /\ GetNamespace(r, h)
    \/ \E r \in Readers : ReaderStep(r)
    \/ \E i \in LookupIDs : StoreCreate(i)
    \/ \E i \in LookupIDs : StoreDelete(i)
    \/ Tick
    \/ RefreshStep

SpecLookup == Init /\ [][NextLookup]_vars

(***************************************************************************)
(* Lookups while the clock stands still: up to MaxLookups calls by the two *)
(* callers, the store and the refresher.                                   *)
(***************************************************************************)
NextSingleFlight ==
    \/ \E r \in Readers, h \in LookupHandles : GetNamespace(r, h)
    \/ \E r \in Readers : ReaderStep(r)
    \/ \E i \in LookupIDs : StoreCreate(i)
    \/ \E i \in LookupIDs : StoreDelete(i)
    \/ RefreshStep

SpecSingleFlight == Init /\ [][NextSingleFlight]_vars

(***************************************************************************)
(* Notifications: the refresher, a registrant, one caller reading through, *)
(* and the store.                                                          *)
(***************************************************************************)
NextNotify ==
    \/ \E h \in LookupHandles : lookups < MaxNotifyLookups /\ GetNamespace("r1", h)
    \/ ReaderStep("r1")
    \/ \E i \in IDs : StoreCreate(i)
    \/ \E i \in IDs, f \in StoreFields : StoreUpdate(i, f)
    \/ \E i \in IDs : StoreDelete(i)
    \/ RefreshStep
    \/ RegistrantStep
    \/ \E t \in Threads : CallbackInvoke(t)
    \/ \E t \in Threads : CallbackReturn(t)

SpecNotify == Init /\ [][NextNotify]_vars

(***************************************************************************)
(* Properties of the read-through path.                                    *)
(***************************************************************************)
\* A store GetNamespace call of reader r is in flight.
InFlight(r) == pc[r] \in {"persist", "persisted"}

\* C1: read-through is single-flight per handle: at no moment are two store
\* GetNamespace calls for the same handle in flight.
C1_SingleFlightPerHandle ==
    \A r1, r2 \in Readers :
        (r1 # r2 /\ InFlight(r1) /\ InFlight(r2)) => req[r1] # req[r2]

\* The main caches hold the namespace handle h names.
MainHit(h) ==
    IF h.kind = "name"
    THEN h.v \in DOMAIN cacheNameToID /\ cacheNameToID[h.v] \in DOMAIN cacheByID
    ELSE h.v \in DOMAIN cacheByID

\* The read-through error cache holds an entry for h that is within its TTL.
NegativeValid(h) ==
    /\ h \in DOMAIN readthroughErrorsCache
    /\ now <= readthroughErrorsCache[h].created + readthroughCacheTTL

\* Reader r takes one of its two cache checks in this step.
Checks(r) == pc[r] \in {"check1", "check2"} /\ pc'[r] # pc[r]

\* C2 as stated: a NotFound answer of the store is cached for the handle, and
\* every lookup of that handle within the TTL returns NamespaceNotFound
\* without calling the store; after the TTL the next lookup calls the store.
C2_Original ==
    [][\A r \in Readers :
          /\ (pc[r] = "persisted" /\ pc'[r] # "persisted" /\ resp[r].err = "NotFound")
                => NegativeValid(req[r])'
          /\ (Checks(r) /\ startNeg[r] /\ NegativeValid(req[r]))
                => (res'[r].kind = "NotFound" /\ ~InFlight(r)')
          /\ (pc[r] = "check2" /\ pc'[r] # "check2" /\ ~NegativeValid(req[r])
              /\ ~MainHit(req[r]))
                => pc'[r] = "persist"]_vars

\* C2 as amended: within the TTL a lookup of that handle is answered without
\* calling the store, with NamespaceNotFound unless the namespace has entered
\* the main caches meanwhile (then the cached namespace is returned).
C2_NegativeCacheWithinTTL ==
    [][\A r \in Readers :
          /\ (pc[r] = "persisted" /\ pc'[r] # "persisted" /\ resp[r].err = "NotFound")
                => NegativeValid(req[r])'
          /\ (Checks(r) /\ NegativeValid(req[r]))
                => /\ ~InFlight(r)'
                   /\ pc'[r] # "putLock"
                   /\ IF MainHit(req[r])
                      THEN res'[r].kind = "ns" /\ res'[r].from = "cache"
                      ELSE res'[r].kind = "NotFound" /\ res'[r].from = "negcache"
          /\ (pc[r] = "check2" /\ pc'[r] # "check2" /\ ~NegativeValid(req[r])
              /\ ~MainHit(req[r]))
                => pc'[r] = "persist"]_vars

\* A lookup goes to the store again for a handle whose negative entry has expired.
C2_Witness ==
    \E r \in Readers :
        /\ pc[r] = "persist"
        /\ req[r] \in DOMAIN readthroughErrorsCache
        /\ now > readthroughErrorsCache[req[r]].created + readthroughCacheTTL

\* C3: a store error other than NotFound leaves no entry in the read-through
\* error cache: every entry there was put for a NotFound answer.
C3_OtherErrorsNotCached ==
    \A h \in DOMAIN readthroughErrorsCache : readthroughErrorsCache[h].cause = "NotFound"

\* After a read-through of a handle failed with another error, the error cache
\* has no entry for it and the next lookup of the handle is calling the store.
C3_Witness ==
    \E r1, r2 \in Readers :
        /\ r1 # r2
        /\ res[r1].from = "store" /\ res[r1].cause = "Transient"
        /\ req[r2] = req[r1]
        /\ pc[r2] = "persist"
        /\ req[r1] \notin DOMAIN readthroughErrorsCache

(***************************************************************************)
(* Properties of the state-change callbacks.                               *)
(***************************************************************************)
\* The invocations thread t has made in the change event it is delivering.
Made(t) == DOMAIN calls[t]

\* C4: RegisterStateChangeCallback(key, fn) has, when it returns, invoked
\* fn(ns, false) exactly once for every namespace that was in the cache at
\* the moment of registration, and made no other invocation.
C4_RegisterInvokesOncePerNamespace ==
    pc[Registrant] = "done" =>
        /\ \A x \in running : x.thr # Registrant
        /\ Made(Registrant) =
              {[key |-> regKey, id |-> i, rec |-> cacheAtRegister[i], del |-> FALSE] :
                  i \in DOMAIN cacheAtRegister}
        /\ \A inv \in Made(Registrant) : calls[Registrant][inv] = 1

\* A registration returns after invoking the callback for every namespace of
\* a cache that held all the namespaces.
C4_Witness ==
    /\ pc[Registrant] = "done"
    /\ DOMAIN cacheAtRegister = IDs
    /\ \A i \in IDs : \E inv \in Made(Registrant) : inv.id = i

\* C5 as stated: for each namespace the new callback's initial invocation
\* happens before any change notification it receives for that namespace.
C5_Original ==
    \A x \in running :
        (x.thr # Registrant /\ x.inv.key = regKey)
            => ~ \E i \in todo[Registrant] : i.id = x.inv.id

\* C5 as amended: the snapshot and the installation are one critical section:
\* while the registration holds the writer lock the callback is installed and
\* the snapshot it will deliver is the cache as it is.
C5_SnapshotAndInstallAtomic ==
    pc[Registrant] = "registerUnlock" =>
        /\ cacheLock = Registrant
        /\ regKey \in stateChangeCallbacks
        /\ allNamespaces = cacheByID
        /\ todo[Registrant] =
              {[key |-> regKey, id |-> i, rec |-> cacheByID[i], del |-> FALSE] :
                  i \in DOMAIN cacheByID}

\* A registration holds the lock with a snapshot of a non-empty cache while
\* a refresh waits to swap in a different cache.
C5_Witness ==
    /\ pc[Registrant] = "registerUnlock"
    /\ cacheByID # EmptyMap
    /\ pc[Refresher] = "swap"
    /\ newCacheByID # cacheByID

\* The four fields of a record that make a state change.
SameState(a, b) ==
    a.st = b.st /\ a.glob = b.glob /\ a.act = b.act /\ a.repl = b.repl

\* The refresh has delivered all its invocations.
RefreshDelivered == pc[Refresher] = "done"

\* C6: on a refresh every registered callback is invoked with deleted=false
\* for a listed namespace if and only if the namespace was not in the cache
\* the refresh copied, or its state, is_global, active_cluster or
\* replication_state differs from the cached record; once, and not at all
\* when only other fields differ.
C6_RefreshNotifiesStateChanges ==
    RefreshDelivered =>
        \A k \in Keys, i \in DOMAIN namespacesDb :
            LET inv == [key |-> k, id |-> i, rec |-> namespacesDb[i], del |-> FALSE]
                changed == \/ i \notin DOMAIN oldCache
                           \/ ~SameState(oldCache[i], namespacesDb[i])
            IN  Count(Refresher, inv) =
                    IF k \in evCallbacks[Refresher] /\ changed THEN 1 ELSE 0

\* A refresh with a registered callback has listed one namespace whose config
\* version alone differs from the cached record (no invocation) and one that
\* was not cached (one invocation).
C6_Witness ==
    /\ RefreshDelivered
    /\ evCallbacks[Refresher] # {}
    /\ \E i \in (DOMAIN namespacesDb) \cap (DOMAIN oldCache) :
          /\ oldCache[i].cv # namespacesDb[i].cv
          /\ SameState(oldCache[i], namespacesDb[i])
    /\ \E i \in (DOMAIN namespacesDb) \ (DOMAIN oldCache) :
          \E inv \in Made(Refresher) : inv.id = i /\ ~inv.del

C8_SerialDispatch ==
    \A x, y \in running : x.thr = y.thr => x = y

\* An invocation of a change event is running while another invocation of
\* the same event waits for it, and an invocation of another event runs too.
C8_Witness ==
    \E x, y \in running :
        /\ x.thr # y.thr
        /\ todo[x.thr] # {}

\* The threads inside a critical section of the writer side of cacheLock.
Writers == {t \in Threads :
              pc[t] \in {"updateUnlock", "swapUnlock", "registerUnlock", "unregisterUnlock"}}

\* C9 as stated: a cache read never waits for a writer.
C9_Original ==
    \A r \in Readers : pc[r] \in {"check1", "check2"} => CanRLock

\* C9 as amended: a lookup that hits the cache completes in one step of its
\* own once no writer holds cacheLock (it waits while one does), and all
\* writes to the two maps are serialised by the writer side of that lock.
C9_ReadersAndWriterLock ==
    /\ [](/\ Cardinality(Writers) <= 1
          /\ \A t \in Threads : t \in Writers <=> cacheLock = t)
    /\ [][/\ (cacheByID' # cacheByID \/ cacheNameToID' # cacheNameToID)
                => (cacheLock = NoThread /\ cacheLock' # NoThread)
          /\ \A r \in Readers :
                (pc[r] = "check1" /\ pc'[r] # "check1" /\ MainHit(req[r]))
                    => (cacheLock = NoThread /\ pc'[r] = "done" /\ res'[r].kind = "ns")
         ]_vars

\* A lookup of a cached namespace waits while a writer holds cacheLock.
C9_Witness ==
    \E r \in Readers :
        /\ pc[r] = "check1"
        /\ MainHit(req[r])
        /\ cacheLock # NoThread

(***************************************************************************)
(* Task-queue partition ownership (physicalTaskQueueManager).  One         *)
(* partition is modelled; its row in the store carries the range id, and   *)
(* every process may load a manager for it.                                *)
(***************************************************************************)
\* idBlockAllocator.RangeID(): the range id the manager believes it holds.
RangeID(p) == rid[p]

\* The store's condition of a conditioned write: the caller's range id is
\* the row's.
ConditionHolds(r) == r = rangeID

\* The manager of process p is loaded and serving the partition.
IsActive(p) == tqmStatus[p] = "started"

RecordWrite(p, ok, kind, id) ==
    [by |-> p, ok |-> ok, seq |-> 1 - lastWrite.seq, kind |-> kind, id |-> id]

\* A block whose first id is the last id of the block before it.
rangeIDToTaskIDBlock_Overlapping(r) ==
    [start |-> (r - 1) * RangeSize, end |-> r * RangeSize]

\* The block of task ids reserved by the lease with range id r.
rangeIDToTaskIDBlock(r) ==
    [start |-> (r - 1) * RangeSize + 1, end |-> r * RangeSize]

\* The id the task writer of p issues next from its block.
NextTaskID(p) ==
    rangeIDToTaskIDBlock(RangeID(p)).start + (RangeSize - idBlock[p])

\* A process loads a manager for the partition; the manager reads the row.
Load(p) ==
    /\ tqmStatus[p] = "unloaded"
    /\ rangeID < MaxRangeID
    /\ tqmStatus' = [tqmStatus EXCEPT ![p] = "leasing"]
    /\ leaseRangeID' = [leaseRangeID EXCEPT ![p] = rangeID]
    /\ unloadCause' = [unloadCause EXCEPT ![p] = "-"]
    /\ failedWrite' = [failedWrite EXCEPT ![p] = "-"]
    /\ idleFor' = [idleFor EXCEPT ![p] = 0]
    /\ ackUpdates' = [ackUpdates EXCEPT ![p] = 0]
    /\ UNCHANGED <<rangeID, rid, idBlock, lastWrite, issued>>
    /\ UNCHANGED <<storeVars, cacheVars, stateChangeCallbacks, cacheLock,
                   readthroughErrorsCache, lockVars, pc, readerVars, refreshVars,
                   regVars, dispatchVars, nsVars, extVars>>

\* Start: lease the partition by UpdateTaskQueue(range_id + 1), conditioned
\* on the range id read; on failure the manager gives up immediately.
Start(p) ==
    /\ tqmStatus[p] = "leasing"
    /\ IF ConditionHolds(leaseRangeID[p])
       THEN /\ rangeID' = leaseRangeID[p] + 1
            /\ rid' = [rid EXCEPT ![p] = leaseRangeID[p] + 1]
            /\ idBlock' = [idBlock EXCEPT ![p] = RangeSize]
            /\ tqmStatus' = [tqmStatus EXCEPT ![p] = "started"]
       ELSE /\ tqmStatus' = [tqmStatus EXCEPT ![p] = "unloaded"]
            /\ UNCHANGED <<rangeID, rid, idBlock>>
    /\ UNCHANGED <<leaseRangeID, lastWrite, unloadCause, failedWrite, idleFor,
                   ackUpdates, issued>>
    /\ UNCHANGED <<storeVars, cacheVars, stateChangeCallbacks, cacheLock,
                   readthroughErrorsCache, lockVars, pc, readerVars, refreshVars,
                   regVars, dispatchVars, nsVars, extVars>>

\* The manager is unloaded.
Unload(p) == [tqmStatus EXCEPT ![p] = "unloaded"]

\* The manager asks to be unloaded for the given cause and stops serving.
UnloadFromPartitionManager(p, cause) ==
    /\ tqmStatus' = [tqmStatus EXCEPT ![p] = "stopping"]
    /\ unloadCause' = [unloadCause EXCEPT ![p] = cause]

\* A conditioned write of p failed with ConditionFailedError.
ConditionFailed(p, kind, id) ==
    /\ UnloadFromPartitionManager(p, "conflict")
    /\ failedWrite' = [failedWrite EXCEPT ![p] = kind]
    /\ lastWrite' = RecordWrite(p, FALSE, kind, id)

\* A renewal that leaves the allocator with the range id it had.
RenewLease_KeepsRangeID(p) ==
    IF ConditionHolds(RangeID(p))
    THEN /\ rangeID' = RangeID(p) + 1
         /\ idBlock' = [idBlock EXCEPT ![p] = RangeSize - 1]
         /\ lastWrite' = RecordWrite(p, TRUE, "renew",
                                     rangeIDToTaskIDBlock(RangeID(p) + 1).start)
         /\ issued' = issued \cup {rangeIDToTaskIDBlock(RangeID(p) + 1).start}
         /\ UNCHANGED <<rid, tqmStatus, unloadCause, failedWrite>>
    ELSE /\ ConditionFailed(p, "renew", 0)
         /\ UNCHANGED <<rangeID, rid, idBlock, issued>>

\* testIDBlockAlloc.RenewLease: reserve the next block of task ids by a
\* write conditioned on the range id held; on success the allocator takes the
\* new range id and the task is written with the first id of the new block,
\* and ConditionFailedError unloads the manager.
RenewLease(p) ==
    IF ConditionHolds(RangeID(p))
    THEN /\ rangeID' = RangeID(p) + 1
         /\ rid' = [rid EXCEPT ![p] = RangeID(p) + 1]
         /\ idBlock' = [idBlock EXCEPT ![p] = RangeSize - 1]
         /\ lastWrite' = RecordWrite(p, TRUE, "renew",
                                     rangeIDToTaskIDBlock(RangeID(p) + 1).start)
         /\ issued' = issued \cup {rangeIDToTaskIDBlock(RangeID(p) + 1).start}
         /\ UNCHANGED <<tqmStatus, unloadCause, failedWrite>>
    ELSE /\ ConditionFailed(p, "renew", 0)
         /\ UNCHANGED <<rangeID, rid, idBlock, issued>>

\* CreateTasks of one task with the next id of the block, conditioned on the
\* range id held.
CreateTasks(p) ==
    /\ issued' = issued \cup {NextTaskID(p)}
    /\ IF ConditionHolds(RangeID(p))
       THEN /\ idBlock' = [idBlock EXCEPT ![p] = idBlock[p] - 1]
            /\ lastWrite' = RecordWrite(p, TRUE, "create", NextTaskID(p))
            /\ UNCHANGED <<rangeID, rid, tqmStatus, unloadCause, failedWrite>>
       ELSE /\ ConditionFailed(p, "create", NextTaskID(p))
            /\ UNCHANGED <<rangeID, rid, idBlock>>

\* SpoolTask: persist one task; an empty id block is renewed first.
SpoolTask(p) ==
    /\ IsActive(p)
    /\ IF idBlock[p] = 0
       THEN rangeID < MaxRangeID /\ RenewLease(p)
       ELSE CreateTasks(p)
    /\ idleFor' = [idleFor EXCEPT ![p] = 0]
    /\ UNCHANGED <<leaseRangeID, ackUpdates>>
    /\ UNCHANGED <<storeVars, cacheVars, stateChangeCallbacks, cacheLock,
                   readthroughErrorsCache, lockVars, pc, readerVars, refreshVars,
                   regVars, dispatchVars, nsVars, extVars>>

\* PollTask: a poller arrives; the manager is not idle.
PollTask(p) ==
    /\ IsActive(p)
    /\ idleFor[p] > 0
    /\ idleFor' = [idleFor EXCEPT ![p] = 0]
    /\ UNCHANGED <<rangeID, tqmStatus, leaseRangeID, rid, idBlock, lastWrite,
                   unloadCause, failedWrite, ackUpdates, issued>>
    /\ UNCHANGED <<storeVars, cacheVars, stateChangeCallbacks, cacheLock,
                   readthroughErrorsCache, lockVars, pc, readerVars, refreshVars,
                   regVars, dispatchVars, nsVars, extVars>>

\* An idle timer that never asks for the unload.
IdleTick_NoUnload(p) ==
    /\ IsActive(p)
    /\ idleFor[p] < MaxTaskQueueIdleTime
    /\ idleFor' = [idleFor EXCEPT ![p] = idleFor[p] + 1]
    /\ UNCHANGED <<tqmStatus, unloadCause>>
    /\ UNCHANGED <<rangeID, leaseRangeID, rid, idBlock, lastWrite, failedWrite,
                   ackUpdates, issued>>
    /\ UNCHANGED <<storeVars, cacheVars, stateChangeCallbacks, cacheLock,
                   readthroughErrorsCache, lockVars, pc, readerVars, refreshVars,
                   regVars, dispatchVars, nsVars, extVars>>

\* A tick of the idle timer with no poller and no new task; after
\* MaxTaskQueueIdleTime of them the timer fires and the manager unloads.
IdleTick(p) ==
    /\ IsActive(p)
    /\ idleFor[p] < MaxTaskQueueIdleTime
    /\ idleFor' = [idleFor EXCEPT ![p] = idleFor[p] + 1]
    /\ IF idleFor[p] + 1 = MaxTaskQueueIdleTime
       THEN UnloadFromPartitionManager(p, "idle")
       ELSE UNCHANGED <<tqmStatus, unloadCause>>
    /\ UNCHANGED <<rangeID, leaseRangeID, rid, idBlock, lastWrite, failedWrite,
                   ackUpdates, issued>>
    /\ UNCHANGED <<storeVars, cacheVars, stateChangeCallbacks, cacheLock,
                   readthroughErrorsCache, lockVars, pc, readerVars, refreshVars,
                   regVars, dispatchVars, nsVars, extVars>>

\* A periodic update that does not unload the manager when it fails.
UpdateAck_KeepsRunning(p) ==
    /\ IsActive(p)
    /\ ackUpdates[p] < MaxAckUpdates
    /\ ackUpdates' = [ackUpdates EXCEPT ![p] = ackUpdates[p] + 1]
    /\ IF ConditionHolds(RangeID(p))
       THEN /\ lastWrite' = RecordWrite(p, TRUE, "ack", 0)
            /\ UNCHANGED failedWrite
       ELSE /\ failedWrite' = [failedWrite EXCEPT ![p] = "ack"]
            /\ lastWrite' = RecordWrite(p, FALSE, "ack", 0)
    /\ UNCHANGED <<rangeID, leaseRangeID, rid, idBlock, idleFor, issued,
                   tqmStatus, unloadCause>>
    /\ UNCHANGED <<storeVars, cacheVars, stateChangeCallbacks, cacheLock,
                   readthroughErrorsCache, lockVars, pc, readerVars, refreshVars,
                   regVars, dispatchVars, nsVars, extVars>>

\* The periodic ack-level update (every UpdateAckInterval), a write
\* conditioned on the range id held; ConditionFailedError unloads the manager.
UpdateAck(p) ==
    /\ IsActive(p)
    /\ ackUpdates[p] < MaxAckUpdates
    /\ ackUpdates' = [ackUpdates EXCEPT ![p] = ackUpdates[p] + 1]
    /\ IF ConditionHolds(RangeID(p))
       THEN /\ lastWrite' = RecordWrite(p, TRUE, "ack", 0)
            /\ UNCHANGED <<tqmStatus, unloadCause, failedWrite>>
       ELSE ConditionFailed(p, "ack", 0)
    /\ UNCHANGED <<rangeID, leaseRangeID, rid, idBlock, idleFor, issued>>
    /\ UNCHANGED <<storeVars, cacheVars, stateChangeCallbacks, cacheLock,
                   readthroughErrorsCache, lockVars, pc, readerVars, refreshVars,
                   regVars, dispatchVars, nsVars, extVars>>

\* A stop that writes the final update whatever the cause of the unload.
Stop_AlwaysFinalUpdate(p) ==
    /\ tqmStatus[p] \in {"started", "stopping"}
    /\ tqmStatus' = Unload(p)
    /\ unloadCause' = [unloadCause EXCEPT ![p] =
                          IF IsActive(p) THEN "unspecified" ELSE unloadCause[p]]
    /\ ackUpdates' = [ackUpdates EXCEPT ![p] = ackUpdates[p] + 1]
    /\ lastWrite' = RecordWrite(p, ConditionHolds(RangeID(p)), "final", 0)
    /\ failedWrite' = failedWrite
    /\ UNCHANGED <<rangeID, leaseRangeID, rid, idBlock, idleFor, issued>>
    /\ UNCHANGED <<storeVars, cacheVars, stateChangeCallbacks, cacheLock,
                   readthroughErrorsCache, lockVars, pc, readerVars, refreshVars,
                   regVars, dispatchVars, nsVars, extVars>>

\* A Stop that leaves the waiting polls waiting.
InterruptPolls_None(p) == poll
\* The polls waiting on the manager return: its matcher is closed.
InterruptPolls(p) ==
    [w \in Pollers |->
        IF poll[w].state = "waiting" /\ poll[w].on = p
        THEN [poll[w] EXCEPT !.state = "interrupted"]
        ELSE poll[w]]

\* Stop(cause): unless the manager unloads for a conflict it makes one final
\* ack-level update, conditioned on the range id held; then it is unloaded.
\* A started manager is stopped from outside (unloadCauseUnspecified).
Stop(p) ==
    /\ tqmStatus[p] \in {"started", "stopping"}
    /\ tqmStatus' = Unload(p)
    /\ LET cause == IF IsActive(p) THEN "unspecified" ELSE unloadCause[p]
       IN  /\ unloadCause' = [unloadCause EXCEPT ![p] = cause]
           /\ IF cause = "conflict"
              THEN UNCHANGED <<ackUpdates, lastWrite, failedWrite>>
              ELSE /\ ackUpdates' = [ackUpdates EXCEPT ![p] = ackUpdates[p] + 1]
                   /\ lastWrite' = RecordWrite(p, ConditionHolds(RangeID(p)), "final", 0)
                   /\ failedWrite' = [failedWrite EXCEPT ![p] =
                                         IF ConditionHolds(RangeID(p)) THEN "-" ELSE "final"]
    /\ UNCHANGED <<rangeID, leaseRangeID, rid, idBlock, idleFor, issued>>
    /\ poll' = InterruptPolls(p)
    /\ UNCHANGED <<registryVars, nsVars, execVars, drainVars, scalingVars,
                   ndc, procBuf, life>>

NextMatching ==
    \/ \E p \in Processes : Load(p)
    \/ \E p \in Processes : Start(p)
    \/ \E p \in Processes : SpoolTask(p)
    \/ \E p \in Processes : PollTask(p)
    \/ \E p \in Processes : IdleTick(p)
    \/ \E p \in Processes : UpdateAck(p)
    \/ \E p \in Processes : Stop(p)

SpecMatching == Init /\ [][NextMatching]_vars

\* An unload that has begun completes: Stop runs to its end.
SpecMatchingFair == SpecMatching /\ \A p \in Processes : WF_vars(Stop(p))

Issues(p) ==
    /\ lastWrite' # lastWrite
    /\ lastWrite'.by = p
    /\ lastWrite'.kind = "create" \/ (lastWrite'.kind = "renew" /\ lastWrite'.ok)

\* C11: the task ids a partition's task writer issues lie in the block of
\* RangeSize ids of the range id it holds (range id 1: 1 .. RangeSize), are
\* contiguous and increasing inside the block, after a lease renewal start
\* above the end of every block reserved before, and none is issued twice.
C11_TaskIDsMonotoneContiguous ==
    [][\A p \in Processes : Issues(p) =>
          LET id == lastWrite'.id
              first == (rid'[p] - 1) * RangeSize + 1
              last == rid'[p] * RangeSize
          IN  /\ id \notin issued
              /\ first <= id /\ id <= last
              /\ rid'[p] = 1 => id \in 1 .. RangeSize
              /\ IF lastWrite'.kind = "renew"
                 THEN /\ id = first
                      /\ id > rangeID * RangeSize
                      /\ \A j \in issued : j < id
                 ELSE IF idBlock[p] = RangeSize
                      THEN id = first
                      ELSE id - 1 \in issued /\ id - 1 >= first
      ]_vars

\* A renewal has just issued the first id of a new block after ids of two
\* earlier blocks were issued.
C11_Witness ==
    /\ lastWrite.kind = "renew"
    /\ lastWrite.ok
    /\ lastWrite.id \in issued
    /\ \E i, j \in issued : i <= RangeSize /\ j > RangeSize /\ j < lastWrite.id

\* C12: a manager whose lease renewal (triggered by an exhausted id block)
\* failed with ConditionFailed is unloading or unloaded for the conflict, and
\* makes no further persistence write for the partition, no final ack-level
\* update included.
C12_NoWriteAfterFailedRenewal ==
    /\ [](\A p \in Processes :
             failedWrite[p] = "renew" => (~IsActive(p) /\ unloadCause[p] = "conflict"))
    /\ [][\A p \in Processes : failedWrite[p] = "renew" =>
             /\ ~(lastWrite' # lastWrite /\ lastWrite'.by = p)
             /\ ackUpdates'[p] <= ackUpdates[p]
             /\ tqmStatus'[p] # "started"
         ]_vars

\* A manager has been unloaded after a failed renewal, with no ack-level
\* update written.
C12_Witness ==
    \E p \in Processes :
        /\ failedWrite[p] = "renew"
        /\ tqmStatus[p] = "unloaded"
        /\ ackUpdates[p] = 0
        /\ lastWrite.by # p

\* C13: the idle timer of a started manager fires after
\* MaxTaskQueueIdleTime without poller or new task; the manager then
\* eventually unloads, and the unload attempts one final ack-level update,
\* which is written if and only if the manager still holds the range id.
C13_IdleUnloadFinalUpdate ==
    /\ [](\A p \in Processes : IsActive(p) => idleFor[p] < MaxTaskQueueIdleTime)
    /\ \A p \in Processes :
          (tqmStatus[p] = "stopping" /\ unloadCause[p] = "idle")
              ~> (tqmStatus[p] = "unloaded")
    /\ [][\A p \in Processes :
             /\ (tqmStatus[p] = "stopping" /\ unloadCause[p] = "idle"
                   /\ tqmStatus'[p] = "unloaded") =>
                   /\ ackUpdates'[p] = ackUpdates[p] + 1
                   /\ lastWrite'.by = p /\ lastWrite'.kind = "final"
                   /\ lastWrite'.ok <=> ConditionHolds(RangeID(p))
             /\ (tqmStatus[p] = "unloaded" /\ tqmStatus'[p] = "unloaded") =>
                   ackUpdates'[p] = ackUpdates[p]
         ]_vars

\* A manager that still held the range id has unloaded for idleness with its
\* one final update written.
C13_Witness ==
    \E p \in Processes :
        /\ tqmStatus[p] = "unloaded"
        /\ unloadCause[p] = "idle"
        /\ idleFor[p] = MaxTaskQueueIdleTime
        /\ ackUpdates[p] = 1
        /\ lastWrite.by = p /\ lastWrite.kind = "final" /\ lastWrite.ok

\* C14: a manager whose ack-level update failed with ConditionFailed attempts
\* no further ack-level update, neither a periodic one nor the final one on
\* unload.
C14_NoAckUpdateAfterOwnershipLost ==
    [][\A p \in Processes : failedWrite[p] = "ack" =>
          /\ ackUpdates'[p] <= ackUpdates[p]
          /\ ~(lastWrite' # lastWrite /\ lastWrite'.by = p)
      ]_vars

\* The one ack-level update of a manager failed after another process took
\* the partition, and the manager has unloaded without a second attempt.
C14_Witness ==
    \E p \in Processes :
        /\ failedWrite[p] = "ack"
        /\ tqmStatus[p] = "unloaded"
        /\ ackUpdates[p] = 1
        /\ \E q \in Processes : q # p /\ IsActive(q) /\ RangeID(q) = rangeID

(***************************************************************************)
(* The namespace handler (package frontend): RegisterNamespace and         *)
(* UpdateNamespace over one namespace row of the metadata store, the       *)
(* cluster metadata's failover-version allocator, and the namespace        *)
(* replication queue.  A handler reads the notification version and the    *)
(* row, computes the new row, and writes it conditioned on the             *)
(* notification version it read.                                           *)
(***************************************************************************)

\* clusterMetadata.GetNextFailoverVersion(cluster, currentFailoverVersion):
\* the smallest version above the current one that belongs to the cluster.
GetNextFailoverVersion(c, currentFailoverVersion) ==
    LET failoverVersion ==
            (currentFailoverVersion \div failoverVersionIncrement) * failoverVersionIncrement
            + InitialFailoverVersion(c)
    IN  IF failoverVersion <= currentFailoverVersion
        THEN failoverVersion + failoverVersionIncrement
        ELSE failoverVersion

\* The requests a caller may send: promote_namespace, the new active
\* cluster (NoCluster when the request names none), and whether the request
\* carries config or data fields that differ from the row.  A request never
\* carries both a config change and an active cluster.
UpdateRequests ==
    {r \in [promote : BOOLEAN, active : ClusterNames \cup {NoCluster}, config : BOOLEAN] :
        ~(r.config /\ r.active # NoCluster)}

\* The request names an active cluster other than the row's.
ActiveClusterChanged(rec, r) == r.active # NoCluster /\ r.active # rec.active
\* The request promotes a local namespace; promoting a global one is a no-op.
NeedsPromotion(rec, r) == r.promote /\ ~rec.isGlobal
ConfigurationChanged(rec, r) == r.config
\* The request is one the handler accepts for this row.
ValidUpdate(rec, r) == r.active # NoCluster => r.active \in rec.clusters

UpdatedIsGlobal(rec, r) == rec.isGlobal \/ r.promote
UpdatedActive(rec, r) == IF r.active # NoCluster THEN r.active ELSE rec.active

UpdatedConfigVersion_BumpsOnPromotion(rec, r) ==
    IF ConfigurationChanged(rec, r) \/ NeedsPromotion(rec, r)
    THEN rec.configVersion + 1
    ELSE rec.configVersion
\* config_version counts the configuration changes of the row.
UpdatedConfigVersion(rec, r) ==
    IF ConfigurationChanged(rec, r) THEN rec.configVersion + 1 ELSE rec.configVersion

\* A failover or a promotion of a (now) global namespace.
BumpsFailoverVersion(rec, r) ==
    (NeedsPromotion(rec, r) \/ ActiveClusterChanged(rec, r)) /\ UpdatedIsGlobal(rec, r)

UpdatedFailoverVersion_KeepsVersion(rec, r) == rec.failoverVersion
UpdatedFailoverVersion(rec, r) ==
    IF BumpsFailoverVersion(rec, r)
    THEN GetNextFailoverVersion(UpdatedActive(rec, r), rec.failoverVersion)
    ELSE rec.failoverVersion

UpdatedFailoverNotificationVersion_EveryWrite(rec, r, version) == version
UpdatedFailoverNotificationVersion(rec, r, version) ==
    IF BumpsFailoverVersion(rec, r) THEN version ELSE rec.failoverNotificationVersion

maybeUpdateFailoverHistory_Prepends(rec, r, t) ==
    IF ActiveClusterChanged(rec, r)
    THEN <<[time |-> t, version |-> UpdatedFailoverVersion(rec, r)]>> \o rec.failoverHistory
    ELSE rec.failoverHistory
\* A change of the active cluster appends (failover time, failover version).
maybeUpdateFailoverHistory(rec, r, t) ==
    IF ActiveClusterChanged(rec, r)
    THEN Append(rec.failoverHistory, [time |-> t, version |-> UpdatedFailoverVersion(rec, r)])
    ELSE rec.failoverHistory

\* The row UpdateNamespace persists for request r on row rec, having read
\* notification version `version`, at time t.
UpdatedNamespace(rec, r, version, t) ==
    [rec EXCEPT !.isGlobal = UpdatedIsGlobal(rec, r),
                !.active = UpdatedActive(rec, r),
                !.data = IF ConfigurationChanged(rec, r) THEN 1 - rec.data ELSE rec.data,
                !.configVersion = UpdatedConfigVersion(rec, r),
                !.failoverVersion = UpdatedFailoverVersion(rec, r),
                !.failoverNotificationVersion = UpdatedFailoverNotificationVersion(rec, r, version),
                !.failoverHistory = maybeUpdateFailoverHistory(rec, r, t)]

HandleTransmissionTask_GlobalOnly(rec) == rec.isGlobal
\* The replicator publishes a row only of a global namespace that has more
\* than one cluster.
HandleTransmissionTask(rec) == rec.isGlobal /\ Cardinality(rec.clusters) > 1

\* Retention periods in milliseconds, and the ones a caller may send:
\* -1h, 0, 1ms, 30min, 1h, 10h, 1 day.
Hour == 3600000
Day == 86400000
Retentions == {0 - Hour, 0, 1, 1800000, Hour, 10 * Hour, Day}
\* The shortest retention accepted for a local and for a global namespace.
MinRetentionLocal == Hour
MinRetentionGlobal == Day

validateRetentionDuration_LocalAnyPositive(retention, isGlobal) ==
    IF isGlobal THEN retention >= MinRetentionGlobal ELSE retention > 0
\* errInvalidRetentionPeriod unless the retention reaches the namespace
\* kind's minimum.
validateRetentionDuration(retention, isGlobal) ==
    retention >= (IF isGlobal THEN MinRetentionGlobal ELSE MinRetentionLocal)

\* RegisterNamespace: validate the request, then CreateNamespace of a row
\* that does not exist yet.  A local namespace lives on the current cluster
\* only.
RegisterNamespace(h, isGlobal, clusters, active, retention) ==
    /\ nsCall[h].phase = "idle"
    /\ ~nsRecord.exists
    /\ notificationVersion < MaxNotificationVersion
    /\ active \in clusters
    /\ ~isGlobal => clusters = {currentClusterName}
    /\ IF validateRetentionDuration(retention, isGlobal)
       THEN LET rec == [NoNamespace EXCEPT
                           !.exists = TRUE,
                           !.isGlobal = isGlobal,
                           !.clusters = clusters,
                           !.active = active,
                           !.state = "REGISTERED",
                           !.retention = retention,
                           !.failoverVersion =
                               IF isGlobal THEN GetNextFailoverVersion(active, 0) ELSE 0]
            IN  /\ nsRecord' = rec
                /\ published' = IF HandleTransmissionTask(rec) THEN published + 1 ELSE published
                /\ lastNsWrite' = [op |-> "register", by |-> h, req |-> NoRequest,
                                   before |-> nsRecord, version |-> notificationVersion,
                                   time |-> timeSource,
                                   published |-> HandleTransmissionTask(rec)]
                /\ notificationVersion' = notificationVersion + 1
                /\ registerResp' = [by |-> h, isGlobal |-> isGlobal,
                                    retention |-> retention, err |-> "nil"]
       ELSE /\ registerResp' = [by |-> h, isGlobal |-> isGlobal,
                                retention |-> retention, err |-> "InvalidArgument"]
            /\ UNCHANGED <<nsRecord, published, lastNsWrite, notificationVersion>>
    /\ UNCHANGED <<timeSource, nsCall>>
    /\ UNCHANGED <<storeVars, cacheVars, stateChangeCallbacks, cacheLock,
                   readthroughErrorsCache, lockVars, pc, readerVars, refreshVars,
                   regVars, dispatchVars, matchVars, extVars>>

\* UpdateNamespace, first half: GetMetadata and GetNamespace.
GetMetadata(h, r) ==
    /\ nsCall[h].phase = "idle"
    /\ nsRecord.exists
    /\ notificationVersion < MaxNotificationVersion
    /\ nsCall' = [nsCall EXCEPT ![h] = [phase |-> "read", req |-> r,
                                        version |-> notificationVersion,
                                        rec |-> nsRecord]]
    /\ UNCHANGED <<nsRecord, notificationVersion, published, timeSource, lastNsWrite,
                   registerResp>>
    /\ UNCHANGED <<storeVars, cacheVars, stateChangeCallbacks, cacheLock,
                   readthroughErrorsCache, lockVars, pc, readerVars, refreshVars,
                   regVars, dispatchVars, matchVars, extVars>>

\* UpdateNamespace, second half: validate, compute the row, persist it
\* conditioned on the notification version read, publish it.
UpdateNamespace(h) ==
    /\ nsCall[h].phase = "read"
    /\ nsCall' = [nsCall EXCEPT ![h] = NoCall]
    /\ LET rec == nsCall[h].rec
           r == nsCall[h].req
           version == nsCall[h].version
           new == UpdatedNamespace(rec, r, version, timeSource)
           changed == \/ ConfigurationChanged(rec, r)
                      \/ ActiveClusterChanged(rec, r)
                      \/ NeedsPromotion(rec, r)
       IN  IF ValidUpdate(rec, r) /\ changed /\ version = notificationVersion
           THEN /\ nsRecord' = new
                /\ notificationVersion' = notificationVersion + 1
                /\ published' = IF HandleTransmissionTask(new) THEN published + 1 ELSE published
                /\ lastNsWrite' = [op |-> "update", by |-> h, req |-> r,
                                   before |-> nsRecord, version |-> version,
                                   time |-> timeSource,
                                   published |-> HandleTransmissionTask(new)]
           ELSE UNCHANGED <<nsRecord, notificationVersion, published, lastNsWrite>>
    /\ UNCHANGED <<timeSource, registerResp>>
    /\ UNCHANGED <<storeVars, cacheVars, stateChangeCallbacks, cacheLock,
                   readthroughErrorsCache, lockVars, pc, readerVars, refreshVars,
                   regVars, dispatchVars, matchVars, extVars>>

\* The handler's time source moves on.
AdvanceClock ==
    /\ timeSource < MaxClock
    /\ timeSource' = timeSource + 1
    /\ UNCHANGED <<nsRecord, notificationVersion, published, nsCall, lastNsWrite,
                   registerResp>>
    /\ UNCHANGED <<storeVars, cacheVars, stateChangeCallbacks, cacheLock,
                   readthroughErrorsCache, lockVars, pc, readerVars, refreshVars,
                   regVars, dispatchVars, matchVars, extVars>>

NextHandler ==
    \/ \E h \in Handlers, g \in BOOLEAN, cs \in SUBSET ClusterNames, a \in ClusterNames,
          t \in Retentions :
           RegisterNamespace(h, g, cs, a, t)
    \/ \E h \in Handlers, r \in UpdateRequests : GetMetadata(h, r)
    \/ \E h \in Handlers : UpdateNamespace(h)
    \/ AdvanceClock

SpecHandler == Init /\ [][NextHandler]_vars

\* The last write was an UpdateNamespace that changed the active cluster.
LastWriteFailedOver ==
    /\ lastNsWrite.op = "update"
    /\ lastNsWrite.before.active # nsRecord.active

StrictlyIncreasingVersions(history) ==
    \A i, j \in 1..Len(history) : i < j => history[i].version < history[j].version

\* C17: at every failover (a write that changes the row's active cluster)
\* the failover_version written is the one the cluster-metadata allocator
\* gives for the new active cluster and the previous version, and it is
\* greater than the previous failover_version.
C17_FailoverVersionStrictlyIncreases ==
    [][(nsRecord.exists /\ nsRecord'.active # nsRecord.active) =>
          /\ nsRecord'.failoverVersion =
                 GetNextFailoverVersion(nsRecord'.active, nsRecord.failoverVersion)
          /\ nsRecord'.failoverVersion > nsRecord.failoverVersion
          /\ StrictlyIncreasingVersions(nsRecord'.failoverHistory)]_vars

\* Three failovers in a row, back and forth between the two clusters.
C17_Witness ==
    /\ LastWriteFailedOver
    /\ Len(nsRecord.failoverHistory) = 3
    /\ nsRecord.failoverHistory[3].version = nsRecord.failoverVersion
    /\ nsRecord.failoverVersion > failoverVersionIncrement

\* The last write was an UpdateNamespace whose request carried config or
\* data fields only.
LastWriteConfigOnly ==
    /\ lastNsWrite.op = "update"
    /\ lastNsWrite.req = [promote |-> FALSE, active |-> NoCluster, config |-> TRUE]

\* C18: an UpdateNamespace that changes only config or data fields leaves
\* failover_version and failover_notification_version as they were, on a
\* local and on a global namespace alike (and counts one more config
\* version).
C18_ConfigUpdateKeepsFailoverVersions ==
    LastWriteConfigOnly =>
        /\ nsRecord.failoverVersion = lastNsWrite.before.failoverVersion
        /\ nsRecord.failoverNotificationVersion =
               lastNsWrite.before.failoverNotificationVersion
        /\ nsRecord.configVersion = lastNsWrite.before.configVersion + 1

\* A config update of a global namespace that has failed over before, so
\* that its failover_notification_version differs from the version read.
C18_Witness ==
    /\ LastWriteConfigOnly
    /\ nsRecord.isGlobal
    /\ nsRecord.failoverHistory # <<>>
    /\ nsRecord.failoverNotificationVersion # lastNsWrite.version
    /\ nsRecord.failoverNotificationVersion > 0

\* The same on a local namespace.
C18_WitnessLocal ==
    /\ LastWriteConfigOnly
    /\ ~nsRecord.isGlobal
    /\ nsRecord.configVersion = 2

\* The last write was UpdateNamespace{promote=true} on a local namespace.
LastWritePromoted ==
    /\ lastNsWrite.op = "update"
    /\ lastNsWrite.req = [promote |-> TRUE, active |-> NoCluster, config |-> FALSE]
    /\ ~lastNsWrite.before.isGlobal

\* C19: promoting a local namespace persists is_global = true and
\* failover_version = the allocator's next version for the namespace's
\* cluster, and leaves clusters, active_cluster and config_version as they
\* were.
C19_PromoteLocalNamespace ==
    LastWritePromoted =>
        LET before == lastNsWrite.before
        IN  /\ nsRecord.isGlobal
            /\ nsRecord.failoverVersion =
                   GetNextFailoverVersion(before.active, before.failoverVersion)
            /\ nsRecord.clusters = before.clusters
            /\ nsRecord.active = before.active
            /\ nsRecord.configVersion = before.configVersion

\* A promotion of a local namespace whose config was updated before.
C19_Witness ==
    /\ LastWritePromoted
    /\ nsRecord.configVersion = 1
    /\ nsRecord.isGlobal
    /\ nsRecord.failoverVersion = InitialFailoverVersion(currentClusterName)

\* The last write changed active_cluster, state or is_global of the row
\* (a registration takes the state to REGISTERED).
LastWriteChangedReplicatedFields ==
    /\ lastNsWrite.op # "-"
    /\ \/ nsRecord.active # lastNsWrite.before.active
       \/ nsRecord.state # lastNsWrite.before.state
       \/ nsRecord.isGlobal # lastNsWrite.before.isGlobal

\* C20 as stated, read for global namespaces: every write that changes
\* active_cluster, state or is_global publishes a replication message.
C20_Original ==
    (LastWriteChangedReplicatedFields /\ nsRecord.isGlobal) => lastNsWrite.published

\* C20: a namespace write is published exactly when the row written is of
\* a global namespace with more than one cluster; in particular every such
\* write that changes active_cluster, state or is_global is published, and
\* the writes to local namespaces and to global namespaces with a single
\* cluster are persisted without a message.
C20_PublishedIffGlobalMultiCluster ==
    /\ lastNsWrite.op # "-" =>
           (lastNsWrite.published <=>
                (nsRecord.isGlobal /\ Cardinality(nsRecord.clusters) > 1))
    /\ published <= notificationVersion - InitialNotificationVersion

\* A failover of a two-cluster global namespace, published after the
\* registration was.
C20_Witness ==
    /\ LastWriteFailedOver
    /\ LastWriteChangedReplicatedFields
    /\ lastNsWrite.published
    /\ published = 2

\* C21 as stated: a RegisterNamespace is accepted only with a retention of
\* at least one day, for local namespaces as well as for global ones.
C21_Original ==
    registerResp.err = "nil" => registerResp.retention >= Day

\* C21: RegisterNamespace answers InvalidArgument and persists nothing
\* exactly when the retention is below the minimum of the namespace kind,
\* which is one day for a global namespace and one hour for a local one (so
\* zero, negative and sub-hour retentions are rejected for both); an
\* accepted request persists the row with the retention asked for.
C21_RegisterValidatesRetention ==
    [][registerResp' # registerResp =>
          LET q == registerResp'
          IN  /\ q.err = "InvalidArgument" <=>
                     q.retention < (IF q.isGlobal THEN Day ELSE Hour)
              /\ q.err = "InvalidArgument" =>
                     UNCHANGED <<nsRecord, notificationVersion, published, lastNsWrite>>
              /\ q.err = "nil" =>
                     /\ ~nsRecord.exists /\ nsRecord'.exists
                     /\ nsRecord'.retention = q.retention
                     /\ nsRecord'.isGlobal = q.isGlobal]_vars

\* A global registration with ten hours of retention was rejected and
\* nothing is persisted.
C21_Witness ==
    /\ registerResp.err = "InvalidArgument"
    /\ registerResp.isGlobal
    /\ registerResp.retention = 10 * Hour
    /\ ~nsRecord.exists
    /\ notificationVersion = InitialNotificationVersion

(***************************************************************************)
(* The execution manager (executionManagerImpl): the write path of one     *)
(* workflow transaction, CreateWorkflowExecution, UpdateWorkflowExecution  *)
(* and ConflictResolveWorkflowExecution, with the XDC event-blob cache and *)
(* the best-effort history trim.  A call is one step; where the call       *)
(* returns and what the store answers are inputs.                          *)
(***************************************************************************)

\* The runs of a request: the one created, updated or reset, the new run
\* (NewWorkflowSnapshot) and the current run (CurrentWorkflowMutation).
PrimaryRun == "run1"
NewRun == "run2"
CurrentRun == "run3"
FirstEventIDs == 1..MaxFirstEventID

\* The requests: the event batches of each run, by their first event id,
\* and whether the new snapshot and the current mutation are present.
ExecRequests ==
    {q \in [events : SUBSET FirstEventIDs, new : BOOLEAN, newEvents : SUBSET FirstEventIDs,
            current : BOOLEAN, currentEvents : SUBSET FirstEventIDs] :
        /\ ~q.new => q.newEvents = {}
        /\ ~q.current => q.currentEvents = {}}

\* Where a call returns, and with which error.
ConditionFailedErrors ==
    {"CurrentWorkflowConditionFailedError", "WorkflowConditionFailedError",
     "ConditionFailedError"}
StoreErrors == ConditionFailedErrors \cup {"ShardOwnershipLostError", "TimeoutError"}
ExecOutcomes ==
    {[failure |-> "serializeWorkflowEventBatches", err |-> "SerializationError"],
     [failure |-> "ValidateModeState", err |-> "InvalidArgument"],
     [failure |-> "ValidateStateStatus", err |-> "InvalidArgument"],
     [failure |-> "SerializeWorkflowSnapshot", err |-> "SerializationError"],
     [failure |-> "-", err |-> "nil"]}
    \cup {[failure |-> "persistence", err |-> e] : e \in StoreErrors}

\* The outcomes of one best-effort trim.
TrimResults == {"getFailed", "trimFailed", "trimmed"}

\* serializeWorkflowEventBatches: one XDC cache entry per event batch, keyed
\* by the run and the batch's first event.
serializeWorkflowEventBatches(run, eventBatches) == {<<run, f>> : f \in eventBatches}

\* Serializing event batches can only fail when there is a batch.
Feasible(q, o) ==
    o.failure = "serializeWorkflowEventBatches" =>
        (q.events \cup q.newEvents \cup q.currentEvents) # {}

XDCKVsToAdd_BeforeStore(err, xdcKVs) == xdcKVs
\* The entries handed to addXDCCacheKV: those of the transaction when the
\* store call returned nil, none on any other return.
XDCKVsToAdd(err, xdcKVs) == IF err = "nil" THEN xdcKVs ELSE {}

\* addXDCCacheKV: put every entry, unless the manager has no cache.
addXDCCacheKV(xdcKVs) ==
    IF cacheEnabled THEN eventBlobCache \cup xdcKVs ELSE eventBlobCache

\* The runs for which trimHistoryNode is called before the error returns.
CreateTrims(q, err) == <<>>

UpdateTrims_Never(q, err) == <<>>
UpdateTrims(q, err) ==
    IF err \in ConditionFailedErrors THEN <<PrimaryRun>> ELSE <<>>

ConflictResolveTrims(q, err) ==
    IF err \in ConditionFailedErrors
    THEN <<PrimaryRun>> \o (IF q.current THEN <<CurrentRun>> ELSE <<>>)
    ELSE <<>>

\* trimHistoryNode for each run in turn; results are the outcomes the store
\* gives to each attempt.
trimHistoryNode(runs, results) ==
    [i \in 1..Len(runs) |-> [run |-> runs[i], result |-> results[i]]]

\* One call of the execution manager.
ExecCall(op, q, o, xdcKVs, runs, results) ==
    /\ Feasible(q, o)
    /\ eventBlobCache' = addXDCCacheKV(XDCKVsToAdd(o.err, xdcKVs))
    /\ lastExec' = [op |-> op, req |-> q, failure |-> o.failure, err |-> o.err,
                    trims |-> trimHistoryNode(runs, results)]
    /\ UNCHANGED cacheEnabled
    /\ UNCHANGED <<storeVars, cacheVars, stateChangeCallbacks, cacheLock,
                   readthroughErrorsCache, lockVars, pc, readerVars, refreshVars,
                   regVars, dispatchVars, matchVars, nsVars, drainVars,
                   scalingVars, tailVars>>

CreateWorkflowExecution(q, o) ==
    /\ ~q.new /\ ~q.current
    /\ ExecCall("CreateWorkflowExecution", q, o,
                serializeWorkflowEventBatches(PrimaryRun, q.events),
                CreateTrims(q, o.err), <<>>)

UpdateWorkflowExecution(q, o, results) ==
    /\ ~q.current
    /\ Len(results) = Len(UpdateTrims(q, o.err))
    /\ ExecCall("UpdateWorkflowExecution", q, o,
                serializeWorkflowEventBatches(PrimaryRun, q.events)
                    \cup serializeWorkflowEventBatches(NewRun, q.newEvents),
                UpdateTrims(q, o.err), results)

ConflictResolveWorkflowExecution(q, o, results) ==
    /\ o.failure # "ValidateStateStatus"
    /\ Len(results) = Len(ConflictResolveTrims(q, o.err))
    /\ ExecCall("ConflictResolveWorkflowExecution", q, o,
                serializeWorkflowEventBatches(PrimaryRun, q.events)
                    \cup serializeWorkflowEventBatches(NewRun, q.newEvents)
                    \cup serializeWorkflowEventBatches(CurrentRun, q.currentEvents),
                ConflictResolveTrims(q, o.err), results)

TrimResultSeqs == {<<>>} \cup {<<a>> : a \in TrimResults}
                    \cup {<<a, b>> : a \in TrimResults, b \in TrimResults}

NextExecution ==
    \/ \E q \in ExecRequests, o \in ExecOutcomes : CreateWorkflowExecution(q, o)
    \/ \E q \in ExecRequests, o \in ExecOutcomes, rs \in TrimResultSeqs :
           UpdateWorkflowExecution(q, o, rs)
    \/ \E q \in ExecRequests, o \in ExecOutcomes, rs \in TrimResultSeqs :
           ConflictResolveWorkflowExecution(q, o, rs)

InitExecution == \E xdcCache \in BOOLEAN : InitWith(xdcCache)
SpecExecution == InitExecution /\ [][NextExecution]_vars

\* The runs the last call attempted to trim, in order.
TrimmedRuns == [i \in 1..Len(lastExec.trims) |-> lastExec.trims[i].run]

\* C22 as stated: each of the three calls attempts a history trim when the
\* store rejects the write with one of the condition-failed errors.
C22_Original ==
    lastExec.err \in ConditionFailedErrors => TrimmedRuns # <<>>

\* C22: when the store rejects the write with ConditionFailed,
\* CurrentWorkflowConditionFailed or WorkflowConditionFailed,
\* UpdateWorkflowExecution attempts a trim of the updated run and
\* ConflictResolveWorkflowExecution one of the reset run and then, when the
\* request has a current mutation, of the current run, before the error is
\* returned; CreateWorkflowExecution returns the error without a trim, and
\* no call trims on success or on any other error.
C22_TrimOnConditionFailed ==
    /\ lastExec.op = "CreateWorkflowExecution" => TrimmedRuns = <<>>
    /\ lastExec.err \notin ConditionFailedErrors => TrimmedRuns = <<>>
    /\ (lastExec.op = "UpdateWorkflowExecution" /\ lastExec.err \in ConditionFailedErrors)
           => TrimmedRuns = <<PrimaryRun>>
    /\ (lastExec.op = "ConflictResolveWorkflowExecution"
            /\ lastExec.err \in ConditionFailedErrors)
           => TrimmedRuns = IF lastExec.req.current
                            THEN <<PrimaryRun, CurrentRun>>
                            ELSE <<PrimaryRun>>

\* An update with a new run was rejected with WorkflowConditionFailed and
\* the updated run was trimmed.
C22_Witness ==
    /\ lastExec.op = "UpdateWorkflowExecution"
    /\ lastExec.err = "WorkflowConditionFailedError"
    /\ lastExec.req.new
    /\ lastExec.req.events # {}
    /\ TrimmedRuns = <<PrimaryRun>>
    /\ lastExec.trims[1].result = "trimmed"

\* The XDC cache entries of the event batches of a request.
RequestXDCKVs(q) ==
    serializeWorkflowEventBatches(PrimaryRun, q.events)
        \cup serializeWorkflowEventBatches(NewRun, q.newEvents)
        \cup serializeWorkflowEventBatches(CurrentRun, q.currentEvents)

\* C23: a call adds event blobs to the XDC event-blob cache only when the
\* store call of the same transaction has succeeded, and then it adds the
\* entries of that transaction's event batches and nothing else; a call that
\* returns an error (from validation, from serialization or from the store)
\* leaves the cache as it was.
C23_CacheOnlyAfterStoreSuccess ==
    [][/\ eventBlobCache' # eventBlobCache =>
              /\ lastExec'.err = "nil"
              /\ eventBlobCache' = eventBlobCache \cup RequestXDCKVs(lastExec'.req)
       /\ (lastExec' # lastExec /\ lastExec'.err # "nil") =>
              eventBlobCache' = eventBlobCache
       /\ (lastExec' # lastExec /\ lastExec'.err = "nil" /\ cacheEnabled) =>
              RequestXDCKVs(lastExec'.req) \subseteq eventBlobCache']_vars

\* A conflict-resolve whose store call was rejected came after a
\* successful update that cached its batch; the rejected call's batches of
\* the current run are not in the cache.
C23_Witness ==
    /\ lastExec.op = "ConflictResolveWorkflowExecution"
    /\ lastExec.failure = "persistence"
    /\ lastExec.req.currentEvents # {}
    /\ eventBlobCache = {<<PrimaryRun, 1>>}

(***************************************************************************)
(* The drainage workflow of a worker deployment version (DrainageWorkflow). *)
(* One chain of runs: a run started by the parent and the runs it          *)
(* continues as.  The workflow clock advances by DrainTick; a Sleep        *)
(* returns when its timer has fired or, with an error the code drops,      *)
(* when the workflow was cancelled; on a cancelled context an activity or  *)
(* a signal to the parent fails.                                           *)
(***************************************************************************)
DrainageStatuses == {"DRAINING", "DRAINED"}
Graces == 1..MaxGrace
defaultVisibilityRefresh == 1

\* if !args.IsCan { ... Sleep(grace) }: the run skips the first step.
SkipsGrace_Always(isCan) == TRUE
SkipsGrace(isCan) == isCan

\* The first statement of a run after the argument check: patched is
\* GetVersion(ctx, "Step1", DefaultVersion, 1) # DefaultVersion.
FirstStep(isCan, patched) ==
    IF SkipsGrace(isCan) THEN "loop"
    ELSE IF patched THEN "getGrace" ELSE "signalDraining"

DrainageReturn(err) == [drainage EXCEPT !.pc = "returned", !.result = err]

DrainageUnchanged ==
    UNCHANGED <<storeVars, cacheVars, stateChangeCallbacks, cacheLock,
                readthroughErrorsCache, lockVars, pc, readerVars, refreshVars,
                regVars, dispatchVars, matchVars, nsVars, execVars, scalingVars,
                tailVars>>

\* The parent starts the workflow; with the patch the parent has put the
\* version in DRAINING before it starts the child.
DrainageWorkflow(isCan, patched) ==
    /\ drainage.pc = "idle"
    /\ drainage' = [drainage EXCEPT !.pc = FirstStep(isCan, patched),
                                    !.isCan = isCan, !.startedCan = isCan,
                                    !.drainingAt = drainage.clock]
    /\ DrainageUnchanged

\* SignalExternalWorkflow(parent, SyncDrainageSignalName, DRAINING).
SignalDraining(ok) ==
    /\ drainage.pc = "signalDraining"
    /\ drainage' = IF ok /\ ~drainage.cancelled
                   THEN [drainage EXCEPT !.pc = "getGrace", !.reported = "DRAINING",
                                         !.reportedAt = drainage.clock,
                                         !.drainingAt = drainage.clock]
                   ELSE DrainageReturn("err")
    /\ DrainageUnchanged

\* getSafeDurationConfig("getVisibilityGracePeriod") and the start of Sleep.
GetVisibilityGracePeriod(grace, ok) ==
    /\ drainage.pc = "getGrace"
    /\ drainage' = IF ok
                   THEN [drainage EXCEPT !.pc = "sleepGrace", !.grace = grace,
                                         !.wake = drainage.clock + grace]
                   ELSE DrainageReturn("err")
    /\ DrainageUnchanged

\* _ = workflow.Sleep(ctx, grace) returns.
GraceSleepReturn ==
    /\ drainage.pc = "sleepGrace"
    /\ drainage.clock >= drainage.wake \/ drainage.cancelled
    /\ drainage' = [drainage EXCEPT !.pc = "loop",
                                    !.sleptGrace = drainage.clock >= drainage.wake]
    /\ DrainageUnchanged

\* for { if done { return nil } ...
LoopTop ==
    /\ drainage.pc = "loop"
    /\ drainage' = IF drainage.done THEN DrainageReturn("nil")
                   ELSE [drainage EXCEPT !.pc = "activity"]
    /\ DrainageUnchanged

\* ExecuteActivity(a.GetVersionDrainageStatus).Get: the visibility check.
GetVersionDrainageStatus(status, ok) ==
    /\ drainage.pc = "activity"
    /\ drainage' = IF ok /\ ~drainage.cancelled
                   THEN [drainage EXCEPT !.pc = "signal", !.info = status,
                                         !.checks = IF @ < 2 THEN @ + 1 ELSE @]
                   ELSE DrainageReturn("err")
    /\ DrainageUnchanged

\* SignalExternalWorkflow(parent, SyncDrainageSignalName, info), and the
\* return once the version is drained.
SyncDrainage(ok) ==
    /\ drainage.pc = "signal"
    /\ drainage' = IF ok /\ ~drainage.cancelled
                   THEN [drainage EXCEPT !.pc = IF drainage.info = "DRAINED"
                                                THEN "returned" ELSE "getRefresh",
                                         !.result = IF drainage.info = "DRAINED"
                                                    THEN "nil" ELSE @,
                                         !.reported = drainage.info,
                                         !.reportedAt = drainage.clock]
                   ELSE DrainageReturn("err")
    /\ DrainageUnchanged

\* getSafeDurationConfig("getDrainageRefreshInterval") and the start of Sleep.
GetDrainageRefreshInterval(ok) ==
    /\ drainage.pc = "getRefresh"
    /\ drainage' = IF ok
                   THEN [drainage EXCEPT !.pc = "sleepRefresh",
                                         !.wake = drainage.clock + defaultVisibilityRefresh]
                   ELSE DrainageReturn("err")
    /\ DrainageUnchanged

\* _ = workflow.Sleep(ctx, refresh) returns; when continue-as-new is
\* suggested the next run starts with args.IsCan = true.
RefreshSleepReturn(continueAsNewSuggested) ==
    /\ drainage.pc = "sleepRefresh"
    /\ drainage.clock >= drainage.wake \/ drainage.cancelled
    /\ continueAsNewSuggested => drainage.runs < MaxDrainRuns
    /\ drainage' = IF continueAsNewSuggested
                   THEN [drainage EXCEPT !.pc = FirstStep(TRUE, TRUE), !.isCan = TRUE,
                                         !.done = FALSE, !.cancelled = FALSE,
                                         !.runs = @ + 1]
                   ELSE [drainage EXCEPT !.pc = "loop"]
    /\ DrainageUnchanged

DrainageRunning == drainage.pc \notin {"idle", "returned"}

\* The parent's TerminateDrainageSignal, received by the listening coroutine.
TerminateDrainage ==
    /\ DrainageRunning /\ ~drainage.done
    /\ drainage' = [drainage EXCEPT !.done = TRUE]
    /\ DrainageUnchanged

\* The workflow is cancelled.
CancelDrainage ==
    /\ DrainageRunning /\ ~drainage.cancelled
    /\ drainage' = [drainage EXCEPT !.cancelled = TRUE]
    /\ DrainageUnchanged

DrainTick ==
    /\ drainage.clock < MaxDrainTime
    /\ drainage' = [drainage EXCEPT !.clock = @ + 1]
    /\ DrainageUnchanged

NextDrainage ==
    \/ \E isCan \in BOOLEAN, patched \in BOOLEAN : DrainageWorkflow(isCan, patched)
    \/ \E ok \in BOOLEAN : SignalDraining(ok)
    \/ \E grace \in Graces, ok \in BOOLEAN : GetVisibilityGracePeriod(grace, ok)
    \/ GraceSleepReturn
    \/ LoopTop
    \/ \E status \in DrainageStatuses, ok \in BOOLEAN : GetVersionDrainageStatus(status, ok)
    \/ \E ok \in BOOLEAN : SyncDrainage(ok)
    \/ \E ok \in BOOLEAN : GetDrainageRefreshInterval(ok)
    \/ \E continueAsNewSuggested \in BOOLEAN : RefreshSleepReturn(continueAsNewSuggested)
    \/ TerminateDrainage
    \/ CancelDrainage
    \/ DrainTick

SpecDrainage == Init /\ [][NextDrainage]_vars

\* C24 as stated: whenever the workflow has checked visibility, and so
\* whenever it has reported DRAINED, the grace-period sleep has run to its
\* end before.
C24_Original ==
    drainage.checks > 0 => drainage.sleptGrace

\* C24: a chain of runs that the parent started with IsCan unset checks
\* visibility only after its grace-period sleep has run to its end, and it
\* reports DRAINED no earlier than one grace period after the version was put
\* in DRAINING; a run the parent starts with IsCan set does not sleep: it
\* reaches its first visibility check with no grace period of its own.
C24_GraceBeforeFirstCheck ==
    /\ (~drainage.startedCan /\ drainage.checks > 0) =>
           /\ drainage.sleptGrace
           /\ drainage.clock >= drainage.drainingAt + drainage.grace
    /\ (~drainage.startedCan /\ drainage.reported = "DRAINED") =>
           drainage.reportedAt >= drainage.drainingAt + drainage.grace
    /\ (drainage.startedCan /\ DrainageRunning) =>
           drainage.pc \notin {"signalDraining", "getGrace", "sleepGrace"}

\* A run continued as new reports DRAINED; the chain slept its grace period
\* of two ticks in its first run.
C24_Witness ==
    /\ ~drainage.startedCan
    /\ drainage.runs = 1
    /\ drainage.reported = "DRAINED"
    /\ drainage.grace = 2
    /\ drainage.sleptGrace

(***************************************************************************)
(* Poller scaling decisions of a physical task queue manager               *)
(* (makePollerScalingDecisionImpl), from its tests and the rules stated    *)
(* for it.  Where two of the rules apply to the same poll and ask for      *)
(* different decisions, and no test fixes the order, either decision may   *)
(* be made.                                                                *)
(***************************************************************************)
MatchingPollerScalingBacklogAgeScaleUp == 1
BacklogCountThreshold == 1

PollInputs ==
    [root : BOOLEAN, admits : BOOLEAN, count : 0..MaxBacklogCount,
     age : 0..MaxBacklogAge, add : 0..MaxRate, dispatch : 0..MaxRate,
     longWait : BOOLEAN, delta : 1..MaxDelta]

Suggestion(delta) == [nil |-> FALSE, delta |-> delta]

\* ApproximateBacklogCount or ApproximateBacklogAge above its threshold.
BacklogHigh(in) ==
    \/ in.count > BacklogCountThreshold
    \/ in.age > MatchingPollerScalingBacklogAgeScaleUp

\* The poll waited for a sync match for longer than the wait time and
\* there is no backlog.
WantsScaleDown_Never(in) == FALSE
WantsScaleDown(in) == in.longWait /\ in.count = 0

\* Root partition: backlog above threshold, or tasks added faster than
\* dispatched.
RootScaleUp_BacklogOnly(in) == BacklogHigh(in)
RootScaleUp(in) == BacklogHigh(in) \/ in.add > in.dispatch

\* Non-root partition: high backlog only, and never with an empty backlog.
NonRootScaleUp_AsRoot(in) == RootScaleUp(in)
NonRootScaleUp(in) == in.count > 0 /\ BacklogHigh(in)

\* The decision to add pollers, under the scaling rate limiter.
ScaleUpDecision_Unlimited(in) ==
    IF (IF in.root THEN RootScaleUp(in) ELSE NonRootScaleUp(in))
    THEN Suggestion(in.delta) ELSE NilDecision
ScaleUpDecision(in) ==
    IF ~in.admits THEN NilDecision
    ELSE IF in.root THEN (IF RootScaleUp(in) THEN Suggestion(in.delta) ELSE NilDecision)
    ELSE IF NonRootScaleUp(in) THEN Suggestion(in.delta) ELSE NilDecision

\* The decisions the rules allow for one poll.
makePollerScalingDecisionImpl(in) ==
    IF ~WantsScaleDown(in) THEN {ScaleUpDecision(in)}
    ELSE IF in.root /\ in.admits /\ ScaleUpDecision(in) = NilDecision
         THEN {Suggestion(0 - in.delta)}
    ELSE {Suggestion(0 - in.delta), ScaleUpDecision(in)}

MakePollerScalingDecision(in, decision) ==
    /\ decision \in makePollerScalingDecisionImpl(in)
    /\ pollScaling' = [made |-> TRUE, in |-> in, decision |-> decision]
    /\ UNCHANGED <<storeVars, cacheVars, stateChangeCallbacks, cacheLock,
                   readthroughErrorsCache, lockVars, pc, readerVars, refreshVars,
                   regVars, dispatchVars, matchVars, nsVars, execVars, drainVars,
                   tailVars>>

Decisions == {NilDecision} \cup {Suggestion(d) : d \in (0 - MaxDelta)..MaxDelta}

NextPollScaling ==
    \E in \in PollInputs, decision \in Decisions : MakePollerScalingDecision(in, decision)

SpecPollScaling == Init /\ [][NextPollScaling]_vars

PollMade == pollScaling.made
PollIn == pollScaling.in
PollDecision == pollScaling.decision
ScalesUp == ~PollDecision.nil /\ PollDecision.delta >= 1
ScalesDown == ~PollDecision.nil /\ PollDecision.delta <= 0 - 1

CachedSinceListing ==
    {i \in DOMAIN oldCache :
        storeWrites = 1 /\ i \in DOMAIN db /\ i \notin DOMAIN namespacesDb}

\* C30: a refresh neither drops from the cache nor reports as deleted a
\* namespace that was created in the store and cached by read-through after
\* the refresh listed the store: once the refresh has swapped the caches such
\* a namespace is still cached and no deleted=true invocation is queued for
\* it.
C30_RefreshKeepsReadThrough ==
    pc[Refresher] = "swapUnlock" =>
        \A i \in CachedSinceListing :
            /\ i \in DOMAIN cacheByID
            /\ \A inv \in todo[Refresher] : ~(inv.del /\ inv.id = i)

(***************************************************************************)
(* The versions of the cached records under refreshes and read-through     *)
(* updates.                                                                *)
(***************************************************************************)
\* The store has created namespaces and updated them, and deleted none: a
\* record of an id is always a later version of the same namespace.
NoStoreDelete == storeWrites' <= Cardinality(DOMAIN db')

\* C31: for every namespace id the ConfigVersion of the cached record never
\* decreases: no step replaces a cached record by one of a lower
\* ConfigVersion.
C31_CachedConfigVersionMonotonic ==
    [][NoStoreDelete =>
          \A i \in (DOMAIN cacheByID) \cap (DOMAIN cacheByID') :
              cacheByID'[i].cv >= cacheByID[i].cv]_vars

\* C32: a caller whose read-through store call failed with an error other
\* than NotFound receives that error and not NamespaceNotFound: a result
\* NamespaceNotFound that comes from the store call was caused by the store
\* answering NotFound.
C32_TransientErrorReturned ==
    \A r \in Readers :
        (res[r].kind = "NotFound" /\ res[r].from = "store") => res[r].cause = "NotFound"

\* C33: at every moment every id the name->id map refers to has an entry in
\* the id->Namespace map, so a lookup by a name that is in the name map finds
\* the namespace.
C33_NameMapRefersToCachedIDs ==
    \A n \in DOMAIN cacheNameToID :
        /\ cacheNameToID[n] \in DOMAIN cacheByID
        /\ getNamespace(n) # NoRec

\* A refresh has just removed a cached namespace the store no longer lists;
\* the name map is not empty and a caller has looked a namespace up.
C33_Witness ==
    /\ pc[Refresher] = "swapUnlock"
    /\ (DOMAIN oldCache) \ (DOMAIN namespacesDb) # {}
    /\ cacheNameToID # EmptyMap
    /\ lookups > 0

\* ---------------------------------------------------------------------
\* Conflict resolution between two runs of a workflow (ndc workflow).
\* ---------------------------------------------------------------------
\* The failover versions and event task ids the two workflows carry.
MaxTaskID == 2
LastWriteVersions == {1, 2, 11, 12}
LastEventTaskIDs == 1..MaxTaskID
\* The cluster a failover version belongs to.
ClusterNameForFailoverVersion(v) ==
    CHOOSE c \in ClusterNames :
        v % failoverVersionIncrement = InitialFailoverVersion(c) % failoverVersionIncrement

\* The comparison that also accepts equal clocks.
WorkflowHappensAfter_NonStrict(thisVersion, thisTaskID, thatVersion, thatTaskID) ==
    IF thisVersion # thatVersion
    THEN thisVersion > thatVersion
    ELSE thisTaskID >= thatTaskID

\* this happens after that: the last write versions decide, and the last
\* event task ids decide between equal versions.
WorkflowHappensAfter(thisVersion, thisTaskID, thatVersion, thatTaskID) ==
    IF thisVersion # thatVersion
    THEN thisVersion > thatVersion
    ELSE thisTaskID > thatTaskID

HappensAfter(this, that) ==
    WorkflowHappensAfter(this.version, this.taskID, that.version, that.taskID)

\* Fail the started workflow task, if there is one, and flush the buffered
\* events.
failWorkflowTask(w) ==
    IF w.startedWT THEN <<"AddWorkflowTaskFailedEvent", "FlushBufferedEvents">> ELSE <<>>

\* Terminate the running workflow as the active side.
terminateWorkflow(w) ==
    [wf    |-> [w EXCEPT !.running = FALSE, !.startedWT = FALSE,
                         !.state = "COMPLETED", !.status = "TERMINATED"],
     calls |-> <<"UpdateCurrentVersion">> \o failWorkflowTask(w)
               \o <<"AddWorkflowExecutionTerminatedEvent">>]

\* Turn the running workflow into a zombie.
zombiefyWorkflow(w) ==
    [wf |-> [w EXCEPT !.state = "ZOMBIE", !.status = "RUNNING"], calls |-> <<>>]

\* A SuppressBy that terminates whichever cluster wrote last.
SuppressOutcome_AlwaysTerminate(cur, inc) ==
    IF ~HappensAfter(inc, cur)
    THEN [wf |-> cur, calls |-> <<>>, policy |-> "TransactionPolicyActive", err |-> "Internal"]
    ELSE IF ~cur.running
    THEN [wf |-> cur, calls |-> <<>>, policy |-> "TransactionPolicyPassive", err |-> "nil"]
    ELSE [wf |-> terminateWorkflow(cur).wf, calls |-> terminateWorkflow(cur).calls,
          policy |-> "TransactionPolicyActive", err |-> "nil"]

\* What SuppressBy does to the current workflow and what it returns.
SuppressOutcome(cur, inc) ==
    IF ~HappensAfter(inc, cur)
    THEN [wf |-> cur, calls |-> <<>>, policy |-> "TransactionPolicyActive", err |-> "Internal"]
    ELSE IF ~cur.running
    THEN [wf |-> cur, calls |-> <<>>, policy |-> "TransactionPolicyPassive", err |-> "nil"]
    ELSE IF ClusterNameForFailoverVersion(cur.version) = currentClusterName
    THEN [wf |-> terminateWorkflow(cur).wf, calls |-> terminateWorkflow(cur).calls,
          policy |-> "TransactionPolicyActive", err |-> "nil"]
    ELSE [wf |-> zombiefyWorkflow(cur).wf, calls |-> <<>>,
          policy |-> "TransactionPolicyPassive", err |-> "nil"]

\* The workflows a call may meet: a started workflow task needs a running
\* workflow, and state and status follow from running.
Workflows ==
    {w \in [version : LastWriteVersions, taskID : LastEventTaskIDs, running : BOOLEAN,
            startedWT : BOOLEAN, state : {"RUNNING", "COMPLETED"},
            status : {"RUNNING", "COMPLETED"}] :
        /\ w.startedWT => w.running
        /\ w.state = (IF w.running THEN "RUNNING" ELSE "COMPLETED")
        /\ w.status = w.state}

\* current.SuppressBy(incoming); the comparisons of the two clocks, in both
\* directions and of the current clock with itself, are recorded with it.
SuppressBy(cur, inc) ==
    /\ LET o == SuppressOutcome(cur, inc)
       IN  ndc' = [called      |-> TRUE,
                   cur         |-> cur,
                   inc         |-> inc,
                   after       |-> o.wf,
                   incAfterCur |-> HappensAfter(inc, cur),
                   curAfterInc |-> HappensAfter(cur, inc),
                   curAfterCur |-> HappensAfter(cur, cur),
                   policy      |-> o.policy,
                   err         |-> o.err,
                   calls       |-> o.calls]
    /\ UNCHANGED <<otherVars, procBuf, life, poll>>

NextNDC == \E cur \in Workflows, inc \in Workflows : SuppressBy(cur, inc)

SpecNDC == Init /\ [][NextNDC]_vars

MaxJobID == 4
MaxBuffer == 3
OverlapPolicies ==
    {"UNSPECIFIED", "SKIP", "BUFFER_ONE", "BUFFER_ALL", "CANCEL_OTHER", "TERMINATE_OTHER",
     "ALLOW_ALL"}
\* The buffers a call may get: jobs in the order they were buffered, all of
\* one overlap policy.
Buffers ==
    {b \in UNION {[1..n -> 1..MaxJobID] : n \in 0..MaxBuffer} :
        \A i \in 1..Len(b) - 1 : b[i] < b[i + 1]}

\* resolve: the schedule's default replaces an unspecified policy.
resolve(policy, default) == IF policy = "UNSPECIFIED" THEN default ELSE policy

\* One buffered start that takes nothing to be running.
ProcessStart_IgnoresRunning(action, start, overlapPolicy, isRunning) ==
    IF overlapPolicy = "ALLOW_ALL"
    THEN [action EXCEPT !.OverlappingStarts = Append(@, start)]
    ELSE IF action.NonOverlappingStart = 0
    THEN [action EXCEPT !.NonOverlappingStart = start]
    ELSE IF overlapPolicy = "BUFFER_ALL"
            \/ (overlapPolicy = "BUFFER_ONE" /\ action.NewBuffer = <<>>)
    THEN [action EXCEPT !.NewBuffer = Append(@, start)]
    ELSE IF overlapPolicy \in {"CANCEL_OTHER", "TERMINATE_OTHER"}
    THEN [action EXCEPT !.NonOverlappingStart = start]
    ELSE action

\* One buffered start, given the action built from the starts before it.
ProcessStart(action, start, overlapPolicy, isRunning) ==
    IF overlapPolicy = "ALLOW_ALL"
    THEN [action EXCEPT !.OverlappingStarts = Append(@, start)]
    ELSE IF isRunning
    THEN CASE overlapPolicy = "BUFFER_ALL" ->
                  [action EXCEPT !.NewBuffer = Append(@, start)]
           [] overlapPolicy = "BUFFER_ONE" ->
                  IF action.NewBuffer = <<>>
                  THEN [action EXCEPT !.NewBuffer = Append(@, start)]
                  ELSE action
           [] overlapPolicy = "CANCEL_OTHER" ->
                  [action EXCEPT !.NeedCancel = TRUE, !.NewBuffer = Append(@, start)]
           [] overlapPolicy = "TERMINATE_OTHER" ->
                  [action EXCEPT !.NeedTerminate = TRUE, !.NewBuffer = Append(@, start)]
           [] OTHER -> action
    ELSE IF action.NonOverlappingStart = 0
    THEN [action EXCEPT !.NonOverlappingStart = start]
    ELSE CASE overlapPolicy = "BUFFER_ALL" ->
                  [action EXCEPT !.NewBuffer = Append(@, start)]
           [] overlapPolicy = "BUFFER_ONE" ->
                  IF action.NewBuffer = <<>>
                  THEN [action EXCEPT !.NewBuffer = Append(@, start)]
                  ELSE action
           [] overlapPolicy \in {"CANCEL_OTHER", "TERMINATE_OTHER"} ->
                  [action EXCEPT !.NonOverlappingStart = start]
           [] OTHER -> action

RECURSIVE ProcessBuffer(_, _, _, _)
\* The action for a buffer of starts with one overlap policy: the starts are
\* taken in order.
ProcessBuffer(buffer, isRunning, policy, default) ==
    IF buffer = <<>>
    THEN NoAction
    ELSE ProcessStart(ProcessBuffer(SubSeq(buffer, 1, Len(buffer) - 1), isRunning,
                                    policy, default),
                      buffer[Len(buffer)], resolve(policy, default), isRunning)

CallProcessBuffer(buffer, isRunning, policy, default) ==
    /\ procBuf' = [called    |-> TRUE,
                   buffer    |-> buffer,
                   isRunning |-> isRunning,
                   policy    |-> resolve(policy, default),
                   action    |-> ProcessBuffer(buffer, isRunning, policy, default)]
    /\ UNCHANGED <<otherVars, ndc, life, poll>>

NextProcessBuffer ==
    \E buffer \in Buffers, isRunning \in BOOLEAN, policy \in OverlapPolicies,
       default \in {"SKIP", "TERMINATE_OTHER"} :
        CallProcessBuffer(buffer, isRunning, policy, default)

SpecProcessBuffer == Init /\ [][NextProcessBuffer]_vars

\* C36: ProcessBuffer starts no non-overlapping run while a workflow is
\* running and at most one per call.  Running, with SKIP, BUFFER_ONE,
\* BUFFER_ALL, CANCEL_OTHER or TERMINATE_OTHER: no start at all; CANCEL_OTHER
\* and TERMINATE_OTHER ask for the cancel / terminate and keep the buffer.
\* Not running: the start is the first buffered job for SKIP, BUFFER_ONE and
\* BUFFER_ALL and the last one for CANCEL_OTHER and TERMINATE_OTHER; the new
\* buffer has at most one job under BUFFER_ONE and none under SKIP.
C36_ProcessBuffer ==
    procBuf.called =>
        LET a == procBuf.action
            b == procBuf.buffer
            p == procBuf.policy
        IN  /\ procBuf.isRunning => a.NonOverlappingStart = 0
            /\ (procBuf.isRunning /\ p # "ALLOW_ALL") => a.OverlappingStarts = <<>>
            /\ (procBuf.isRunning /\ p \in {"CANCEL_OTHER", "TERMINATE_OTHER"} /\ b # <<>>) =>
                   /\ a.NewBuffer = b
                   /\ a.NeedCancel = (p = "CANCEL_OTHER")
                   /\ a.NeedTerminate = (p = "TERMINATE_OTHER")
            /\ (~procBuf.isRunning /\ b # <<>> /\ p \in {"SKIP", "BUFFER_ONE", "BUFFER_ALL"}) =>
                   a.NonOverlappingStart = b[1]
            /\ (~procBuf.isRunning /\ b # <<>> /\ p \in {"CANCEL_OTHER", "TERMINATE_OTHER"}) =>
                   a.NonOverlappingStart = b[Len(b)]
            /\ ~procBuf.isRunning => (~a.NeedCancel /\ ~a.NeedTerminate)
            /\ p = "BUFFER_ONE" => Len(a.NewBuffer) <= 1
            /\ p = "SKIP" => a.NewBuffer = <<>>
            /\ a.NonOverlappingStart # 0 =>
                   \A i \in 1..Len(a.NewBuffer) : a.NewBuffer[i] # a.NonOverlappingStart

\* ProcessBuffer was called with a full buffer of CANCEL_OTHER jobs while a
\* workflow was running, and asked for the cancel.
C36_Witness ==
    /\ procBuf.called
    /\ Len(procBuf.buffer) = MaxBuffer
    /\ procBuf.isRunning
    /\ procBuf.policy = "CANCEL_OTHER"
    /\ procBuf.action.NeedCancel

\* A step of the drainage workflow that sends a drainage-status signal to
\* the parent: the run reaches a SignalExternalWorkflow call.
SignalsParent ==
    /\ drainage'.pc \in {"signalDraining", "signal"}
    /\ drainage'.pc # drainage.pc

\* C40: once the run has received TerminateDrainageSignal it sends no
\* further drainage-status signal to its parent, and it does not go on as a
\* new run: it ends by that signal.
C40_TerminateStopsSignals ==
    [][(drainage.done /\ DrainageRunning) =>
          /\ ~SignalsParent
          /\ drainage'.runs = drainage.runs]_vars

\* ---------------------------------------------------------------------
\* The registry's lifecycle: Start, Stop and the refresh loop.
\* ---------------------------------------------------------------------
MaxStarts == 2
MaxStops == 1
CacheRefreshFailureRetryInterval == 1
\* triggerRefreshCh: make(chan chan struct{}, 1)
triggerRefreshChCap == 1

LifeUnchanged == UNCHANGED <<matchVars, nsVars, execVars, drainVars, scalingVars,
                             ndc, procBuf, poll>>
RegistryUnchanged ==
    UNCHANGED <<storeVars, cacheVars, stateChangeCallbacks, cacheLock,
                readthroughErrorsCache, lockVars, pc, readerVars, refreshVars,
                regVars, dispatchVars>>

\* refreshNamespaces without an error: the listing replaces the caches.  No
\* state-change callback is registered and no reader runs beside it here.
RefreshNamespacesOK ==
    /\ cacheByID' = RefreshedByID(cacheByID, db)
    /\ cacheNameToID' = RefreshedNameToID(cacheByID, db)
    /\ UNCHANGED <<storeVars, stateChangeCallbacks, cacheLock, readthroughErrorsCache,
                   lockVars, pc, readerVars, refreshVars, regVars, dispatchVars>>

LoopAlive == life.loop \notin {"none", "exited"}

\* Start: CompareAndSwap(status, stopped, starting), or return.
RegistryStart(c) ==
    /\ ~life.crashed
    /\ life.call[c] = "idle"
    /\ life' = IF life.status = "stopped"
               THEN [life EXCEPT !.status = "starting", !.call[c] = "startRefresh"]
               ELSE life
    /\ RegistryUnchanged /\ LifeUnchanged

\* Start: the first refreshNamespaces; an error is fatal.
StartRefresh(c) ==
    /\ ~life.crashed
    /\ life.call[c] = "startRefresh"
    /\ IF life.storeUp
       THEN /\ life' = [life EXCEPT !.call[c] = "startGo"]
            /\ RefreshNamespacesOK
       ELSE /\ life' = [life EXCEPT !.crashed = TRUE]
            /\ RegistryUnchanged
    /\ LifeUnchanged

\* Start: r.refresher = goro.NewHandle(ctx).Go(r.refreshLoop)
StartGo(c) ==
    /\ ~life.crashed
    /\ life.call[c] = "startGo"
    /\ life' = [life EXCEPT !.call[c] = "startDefer", !.loop = "select",
                            !.cancelled = FALSE, !.timer = 0, !.alive = @ + 1,
                            !.last = "-"]
    /\ RegistryUnchanged /\ LifeUnchanged

\* Start: defer atomic.StoreInt32(&r.status, running)
StartReturn(c) ==
    /\ ~life.crashed
    /\ life.call[c] = "startDefer"
    /\ life' = [life EXCEPT !.call[c] = "idle", !.status = "running",
                            !.starts = IF @ < MaxStarts THEN @ + 1 ELSE @]
    /\ RegistryUnchanged /\ LifeUnchanged

\* A Stop that takes effect from any status but stopped.
StopTakesEffect_Always == life.status # "stopped"
\* Stop: CompareAndSwap(status, running, stopping)
StopTakesEffect == life.status = "running"

RegistryStop(c) ==
    /\ ~life.crashed
    /\ life.call[c] = "idle"
    /\ life' = IF StopTakesEffect
               THEN [life EXCEPT !.status = "stopping", !.call[c] = "stopCancel"]
               ELSE life
    /\ RegistryUnchanged /\ LifeUnchanged

\* Stop: r.refresher.Cancel()
StopCancel(c) ==
    /\ ~life.crashed
    /\ life.call[c] = "stopCancel"
    /\ life' = [life EXCEPT !.call[c] = "stopWait", !.cancelled = TRUE]
    /\ RegistryUnchanged /\ LifeUnchanged

\* A Stop that does not wait for the refresh loop.
RefresherDone_NoWait == TRUE
\* <-r.refresher.Done()
RefresherDone == ~LoopAlive

\* Stop: the wait for the loop and the deferred store of stopped.
StopReturn(c) ==
    /\ ~life.crashed
    /\ life.call[c] = "stopWait"
    /\ RefresherDone
    /\ life' = [life EXCEPT !.call[c] = "idle", !.status = "stopped",
                            !.stops = IF @ < MaxStops THEN @ + 1 ELSE @]
    /\ RegistryUnchanged /\ LifeUnchanged

LoopExit == [life EXCEPT !.loop = "exited", !.alive = @ - 1, !.timer = 0]

\* refreshLoop: select { case <-ctx.Done(): return nil
\*                       case replyCh := <-r.triggerRefreshCh: ... }
LoopSelect ==
    /\ ~life.crashed
    /\ life.loop = "select"
    /\ \/ /\ life.cancelled
          /\ life' = LoopExit
       \/ /\ life.trigger > 0
          /\ life' = [life EXCEPT !.trigger = @ - 1, !.loop = "refresh"]
    /\ RegistryUnchanged /\ LifeUnchanged

\* refreshLoop: err := r.refreshNamespaces(ctx); a cancelled context may
\* fail the listing.
LoopRefresh(ok) ==
    /\ ~life.crashed
    /\ life.loop = "refresh"
    /\ ok => life.storeUp
    /\ ~ok => (~life.storeUp \/ life.cancelled)
    /\ IF ok
       THEN /\ life' = [life EXCEPT !.loop = "select", !.last = "ok"]
            /\ RefreshNamespacesOK
       ELSE /\ life' = [life EXCEPT !.loop = "retryCheck", !.last = "err"]
            /\ RegistryUnchanged
    /\ LifeUnchanged

\* A loop that gives up after a failed refresh.
AfterFailure_GiveUp == LoopExit
\* refreshLoop: select { case <-ctx.Done(): return nil; default: log, then wait
AfterFailure ==
    IF life.cancelled
    THEN LoopExit
    ELSE [life EXCEPT !.loop = "retryWait",
                      !.timer = CacheRefreshFailureRetryInterval]

LoopRetryCheck ==
    /\ ~life.crashed
    /\ life.loop = "retryCheck"
    /\ life' = AfterFailure
    /\ RegistryUnchanged /\ LifeUnchanged

\* time passes for time.After(CacheRefreshFailureRetryInterval)
RetryTimer ==
    /\ ~life.crashed
    /\ life.loop = "retryWait"
    /\ life.timer > 0
    /\ life' = [life EXCEPT !.timer = @ - 1]
    /\ RegistryUnchanged /\ LifeUnchanged

\* refreshLoop: select { case <-time.After(...): case <-ctx.Done(): return nil }
LoopRetryWait ==
    /\ ~life.crashed
    /\ life.loop = "retryWait"
    /\ \/ /\ life.cancelled
          /\ life' = LoopExit
       \/ /\ life.timer = 0
          /\ life' = [life EXCEPT !.loop = "refresh"]
    /\ RegistryUnchanged /\ LifeUnchanged

\* The ticker goroutine of the loop: a tick puts nil into triggerRefreshCh
\* unless the channel is full; the goroutine ends with the context.
TickerTick ==
    /\ ~life.crashed
    /\ LoopAlive /\ ~life.cancelled
    /\ life.trigger < triggerRefreshChCap
    /\ life' = [life EXCEPT !.trigger = @ + 1]
    /\ RegistryUnchanged /\ LifeUnchanged

\* The store stops or starts answering.
StoreOutage ==
    /\ ~life.crashed
    /\ life' = [life EXCEPT !.storeUp = ~@]
    /\ RegistryUnchanged /\ LifeUnchanged

LoopStep ==
    \/ LoopSelect
    \/ \E ok \in BOOLEAN : LoopRefresh(ok)
    \/ LoopRetryCheck
    \/ LoopRetryWait

StopStep == \E c \in Callers : StopCancel(c) \/ StopReturn(c)

NextLifecycle ==
    \/ \E c \in Callers : RegistryStart(c)
    \/ \E c \in Callers : StartRefresh(c)
    \/ \E c \in Callers : StartGo(c)
    \/ \E c \in Callers : StartReturn(c)
    \/ \E c \in Callers : RegistryStop(c)
    \/ StopStep
    \/ LoopStep
    \/ RetryTimer
    \/ TickerTick
    \/ StoreOutage
    \/ \E i \in IDs : StoreCreate(i)
    \/ \E i \in IDs : StoreDelete(i)

SpecLifecycle == Init /\ [][NextLifecycle]_vars

\* The loop goroutine, the retry timer, the ticker and a caller inside Stop
\* keep running.
SpecLifecycleFair ==
    /\ SpecLifecycle
    /\ WF_vars(LoopStep)
    /\ WF_vars(RetryTimer)
    /\ WF_vars(TickerTick)
    /\ WF_vars(StopStep)

\* A refresh of the loop has failed and the loop has not ended.
Retrying == life.last = "err" /\ LoopAlive

\* C38: after a failed refresh the loop keeps retrying, CacheRefreshFailureRetryInterval
\* apart, until a refresh succeeds or the registry is stopped: if the store
\* answers from some moment on, a failed refresh is followed by a completed
\* one or by the end of the loop, and a cancelled loop ends.
C38_RetryUntilSuccessOrStop ==
    /\ (<>[]life.storeUp) => (Retrying ~> (life.last = "ok" \/ ~LoopAlive))
    /\ (life.cancelled /\ LoopAlive) ~> ~LoopAlive
    /\ [][(life.loop = "retryCheck" /\ life'.loop # life.loop /\ ~life.cancelled)
              => life'.loop = "retryWait"]_vars
    /\ [][(life.loop = "retryWait" /\ life'.loop = "refresh") => life.timer = 0]_vars

\* A refresh of the loop has failed, the loop has waited, and it makes the
\* next attempt while the registry runs and the store answers again.
C38_Witness ==
    /\ Retrying
    /\ life.loop = "refresh"
    /\ life.timer = 0
    /\ life.storeUp
    /\ life.status = "running"
    /\ ~life.cancelled

\* The edges of the lifecycle.
LifecycleEdges ==
    {<<"stopped", "starting">>, <<"starting", "running">>,
     <<"running", "stopping">>, <<"stopping", "stopped">>}

\* C39: the status goes stopped -> starting -> running -> stopping ->
\* stopped and by no other edge; at most one refresh loop exists at any
\* time, and none while the registry is stopped or starts; when a Stop that
\* took effect returns, the refresh loop has ended.
C39_Lifecycle ==
    [][/\ life'.status # life.status => <<life.status, life'.status>> \in LifecycleEdges
       /\ life'.alive <= 1
       /\ (life'.status = "stopped" /\ ~life'.crashed) => life'.alive = 0
       /\ \A c \in Callers :
              (life.call[c] = "stopWait" /\ life'.call[c] = "idle") =>
                  (life'.alive = 0 /\ ~LoopAlive)]_vars

\* The registry runs again, with a refresh loop, after a Stop that took
\* effect has returned.
C39_Witness ==
    /\ life.stops >= 1
    /\ life.status = "running"
    /\ LoopAlive
    /\ life.alive = 1

\* ---------------------------------------------------------------------
\* Long polls on a partition manager and its Stop.
\* ---------------------------------------------------------------------
PollUnchanged ==
    UNCHANGED <<registryVars, nsVars, execVars, drainVars, scalingVars, ndc, procBuf, life>>

\* PollTask(ctx, pollMetadata) on a started manager: the poller waits for a
\* task.
PollWait(w, p) ==
    /\ IsActive(p)
    /\ poll[w].state # "waiting"
    /\ poll' = [poll EXCEPT ![w] = [on |-> p, state |-> "waiting"]]
    /\ idleFor' = [idleFor EXCEPT ![p] = 0]
    /\ UNCHANGED <<rangeID, tqmStatus, leaseRangeID, rid, idBlock, lastWrite,
                   unloadCause, failedWrite, ackUpdates, issued>>
    /\ PollUnchanged

\* The poll's context reaches its deadline.
PollTimeout(w) ==
    /\ poll[w].state = "waiting"
    /\ poll' = [poll EXCEPT ![w].state = "timeout"]
    /\ UNCHANGED matchVars
    /\ PollUnchanged

\* A task is matched with the waiting poll.
PollMatched(w) ==
    /\ poll[w].state = "waiting"
    /\ IsActive(poll[w].on)
    /\ poll' = [poll EXCEPT ![w].state = "task"]
    /\ UNCHANGED matchVars
    /\ PollUnchanged

NextPolling ==
    \/ \E p \in Processes : Load(p)
    \/ \E p \in Processes : Start(p)
    \/ \E p \in Processes : IdleTick(p)
    \/ \E p \in Processes : UpdateAck(p)
    \/ \E p \in Processes : Stop(p)
    \/ \E w \in Pollers, p \in Processes : PollWait(w, p)
    \/ \E w \in Pollers : PollTimeout(w)
    \/ \E w \in Pollers : PollMatched(w)

SpecPolling == Init /\ [][NextPolling]_vars

====
